---------------------------- MODULE Spec2Model ----------------------------
(***************************************************************************)
(* Field extraction and reconciliation pipeline of the ACORD-125 intake    *)
(* application: schema registry, validators, type coercion, rule           *)
(* extractor, gap analysis, LLM fallback, merge and the validation pass.   *)
(*                                                                         *)
(* JavaScript values are records [k, s, n, b]: k is the typeof tag, s the  *)
(* characters of a string (a sequence of one-character strings), n a       *)
(* number held in tenths (12 is 1.2; the sampled inputs carry at most one  *)
(* fractional digit), b a boolean.  Objects are functions from keys to     *)
(* values; a key outside the DOMAIN is an absent property.                 *)
(***************************************************************************)
EXTENDS Integers, Sequences, FiniteSets, TLC

VARIABLES
    rev,              \* which revision of config/formSchema.js is deployed
    apiKey,           \* process.env.GEMINI_API_KEY is set
    structured_data,  \* req.body.structured_data
    transcripts,      \* req.body.unstructured_transcripts
    caller,           \* "handler": the API route runs; "direct": extractWithLLM is applied on its own
    phase,            \* position of the extraction run
    rulesResults,     \* handler: rulesResults
    extractedData,    \* handler: extractedData
    remainingSchema,  \* handler: keys of remainingSchema
    llmResults,       \* handler: llmResults (the candidate map)
    llmCalls,         \* number of chat.sendMessage calls issued
    llmThrew,         \* extractWithLLM let an exception reach its caller
    llmOutcome,       \* what the model stage did ("none" before it acted)
    response,         \* [status, body] sent by the handler
    formData,         \* client: the form data handed to the validator
    validationResult, \* client: { isValid, errors } of the validator on formData
    voiceOut,         \* outcome of the voice-command coercion of coerceIn
    mergeOut,         \* outcome of the merge coercion of coerceIn
    coerceIn,         \* [field, raw] given to both coercions
    edits,            \* client: number of input changes made to the form
    selectedCompanyId,\* client: selectedCompanyId ("" while no company is selected)
    mockDatabase,     \* save-form: mockDatabase, keyed by <<clerkUserId, companyId>>
    command,          \* the voice command process-voice answered with
    isSaving,         \* client: isSaving
    saveRequest,      \* the save-form request of handleSaveForm and its answer
    pdfRequest,       \* body of the last request sent to /api/generate-pdf
    runs,             \* the extraction requests in flight, each with the handler's locals
    loadRequest,      \* the load-form request last made and its answer
    staleSave,        \* the save-form request that was in flight when a company was selected
    isLoadingSavedData, \* client: isLoadingSavedData
    isLoadingMemory,  \* client: isLoadingMemory
    isExtracting,     \* client: isExtracting
    selections        \* company selections made so far

vars == <<rev, apiKey, structured_data, transcripts, caller, phase, rulesResults,
          extractedData, remainingSchema, llmResults, llmCalls, llmThrew,
          llmOutcome, response, formData, validationResult, voiceOut, mergeOut, coerceIn,
          edits, selectedCompanyId, mockDatabase, command, isSaving, saveRequest,
          pdfRequest, runs, loadRequest, staleSave, isLoadingSavedData, isLoadingMemory,
          isExtracting, selections>>

\* the variables of an editing session and of requests served side by side
sessionVars == <<selectedCompanyId, mockDatabase, command, isSaving, saveRequest,
                 pdfRequest, runs, loadRequest, staleSave, isLoadingSavedData,
                 isLoadingMemory, isExtracting, selections>>

\* the variables of a company selection
selectionVars ==
    <<loadRequest, staleSave, isLoadingSavedData, isLoadingMemory, isExtracting, selections>>

----------------------------------------------------------------------------
(* JavaScript values *)

Null == [k |-> "null", s |-> <<>>, n |-> 0, b |-> FALSE]

Undef == [k |-> "undefined", s |-> <<>>, n |-> 0, b |-> FALSE]

Str(cs) == [k |-> "string", s |-> cs, n |-> 0, b |-> FALSE]

Num(t) == [k |-> "number", s |-> <<>>, n |-> t, b |-> FALSE]

Bool(x) == [k |-> "boolean", s |-> <<>>, n |-> 0, b |-> x]

\* v ? ... : ... (ToBoolean)
Truthy(v) ==
    CASE v.k = "string" -> v.s /= <<>>
      [] v.k = "number" -> v.n /= 0
      [] v.k = "boolean" -> v.b
      [] OTHER -> FALSE

\* the empty object {}
EmptyObj == [x \in {} |-> Null]

\* obj[key]
Prop(obj, key) == IF key \in DOMAIN obj THEN obj[key] ELSE Undef

\* obj[key] = v
Put(obj, key, v) == (key :> v) @@ obj

----------------------------------------------------------------------------
(* Strings *)

Digit == {"0", "1", "2", "3", "4", "5", "6", "7", "8", "9"}

\* \s of a regular expression, and what String.prototype.trim removes
WhiteSpace == {" ", "\t", "\n"}

DigitVal(c) ==
    CASE c = "0" -> 0 [] c = "1" -> 1 [] c = "2" -> 2 [] c = "3" -> 3 [] c = "4" -> 4
      [] c = "5" -> 5 [] c = "6" -> 6 [] c = "7" -> 7 [] c = "8" -> 8 [] c = "9" -> 9

DigitChar(d) ==
    CASE d = 0 -> "0" [] d = 1 -> "1" [] d = 2 -> "2" [] d = 3 -> "3" [] d = 4 -> "4"
      [] d = 5 -> "5" [] d = 6 -> "6" [] d = 7 -> "7" [] d = 8 -> "8" [] d = 9 -> "9"

LowerChar(c) ==
    CASE c = "A" -> "a" [] c = "B" -> "b" [] c = "C" -> "c" [] c = "D" -> "d"
      [] c = "E" -> "e" [] c = "F" -> "f" [] c = "G" -> "g" [] c = "H" -> "h"
      [] c = "I" -> "i" [] c = "J" -> "j" [] c = "K" -> "k" [] c = "L" -> "l"
      [] c = "M" -> "m" [] c = "N" -> "n" [] c = "O" -> "o" [] c = "P" -> "p"
      [] c = "Q" -> "q" [] c = "R" -> "r" [] c = "S" -> "s" [] c = "T" -> "t"
      [] c = "U" -> "u" [] c = "V" -> "v" [] c = "W" -> "w" [] c = "X" -> "x"
      [] c = "Y" -> "y" [] c = "Z" -> "z" [] OTHER -> c

toLowerCase(cs) == [i \in 1..Len(cs) |-> LowerChar(cs[i])]

RECURSIVE TrimStart(_)
TrimStart(cs) ==
    IF cs /= <<>> /\ Head(cs) \in WhiteSpace THEN TrimStart(Tail(cs)) ELSE cs

RECURSIVE TrimEnd(_)
TrimEnd(cs) ==
    IF cs /= <<>> /\ cs[Len(cs)] \in WhiteSpace
    THEN TrimEnd(SubSeq(cs, 1, Len(cs) - 1))
    ELSE cs

trim(cs) == TrimEnd(TrimStart(cs))

\* cs.replace(/[...]/g, '') for a character class
Strip(cs, class) == SelectSeq(cs, LAMBDA c : c \notin class)

AllIn(cs, class) == \A i \in 1..Len(cs) : cs[i] \in class

\* digits of a natural number
RECURSIVE NatChars(_)
NatChars(m) == IF m < 10 THEN <<DigitChar(m)>> ELSE NatChars(m \div 10) \o <<DigitChar(m % 10)>>

\* String(number) for a number held in tenths
NumChars(t) ==
    LET a == IF t < 0 THEN 0 - t ELSE t
        whole == NatChars(a \div 10)
        frac == IF a % 10 = 0 THEN <<>> ELSE <<".", DigitChar(a % 10)>>
    IN (IF t < 0 THEN <<"-">> ELSE <<>>) \o whole \o frac

\* String(v)
String(v) ==
    CASE v.k = "string" -> v.s
      [] v.k = "number" -> NumChars(v.n)
      [] v.k = "boolean" -> IF v.b THEN <<"t", "r", "u", "e">> ELSE <<"f", "a", "l", "s", "e">>
      [] v.k = "null" -> <<"n", "u", "l", "l">>
      [] OTHER -> <<"u", "n", "d", "e", "f", "i", "n", "e", "d">>

\* number of leading characters of cs that lie in class
RECURSIVE Span(_, _)
Span(cs, class) ==
    IF cs /= <<>> /\ Head(cs) \in class THEN 1 + Span(Tail(cs), class) ELSE 0

RECURSIVE NatOf(_)
NatOf(ds) == IF ds = <<>> THEN 0 ELSE 10 * NatOf(SubSeq(ds, 1, Len(ds) - 1)) + DigitVal(ds[Len(ds)])

\* parseFloat(cs): the longest numeric prefix after leading white space;
\* [nan |-> TRUE] when there is none.  The value is in tenths.
parseFloat(cs) ==
    LET t == TrimStart(cs)
        sgn == IF t /= <<>> /\ Head(t) \in {"-", "+"} THEN 1 ELSE 0
        neg == sgn = 1 /\ Head(t) = "-"
        u == SubSeq(t, sgn + 1, Len(t))
        ni == Span(u, Digit)
        afterInt == SubSeq(u, ni + 1, Len(u))
        dot == afterInt /= <<>> /\ Head(afterInt) = "."
        fr == IF dot THEN SubSeq(afterInt, 2, Len(afterInt)) ELSE <<>>
        nf == Span(fr, Digit)
        mag == 10 * NatOf(SubSeq(u, 1, ni)) + (IF nf > 0 THEN DigitVal(fr[1]) ELSE 0)
    IN IF ni = 0 /\ nf = 0
       THEN [nan |-> TRUE, n |-> 0]
       ELSE [nan |-> FALSE, n |-> IF neg THEN 0 - mag ELSE mag]

----------------------------------------------------------------------------
(* Schema registry: the three revisions of config/formSchema.js *)

Revs == {"acord", "agency", "legacy"}

Field(label, type, required) == [label |-> label, type |-> type, required |-> required]

applicantBusinessTypeOptions ==
    {<<"C", "o", "r", "p", "o", "r", "a", "t", "i", "o", "n">>,
     <<"I", "n", "d", "i", "v", "i", "d", "u", "a", "l">>,
     <<"J", "o", "i", "n", "t", " ", "V", "e", "n", "t", "u", "r", "e">>,
     <<"L", "L", "C">>,
     <<"P", "a", "r", "t", "n", "e", "r", "s", "h", "i", "p">>,
     <<"N", "o", "t", " ", "F", "o", "r", " ", "P", "r", "o", "f", "i", "t", " ", "O", "r", "g">>,
     <<"S", "u", "b", "c", "h", "a", "p", "t", "e", "r", " ", "S", " ", "C", "o", "r", "p", "o", "r", "a", "t", "i", "o", "n">>,
     <<"T", "r", "u", "s", "t">>}

natureOfBusinessOptions ==
    {<<"A", "p", "a", "r", "t", "m", "e", "n", "t", "s">>,
     <<"C", "o", "n", "t", "r", "a", "c", "t", "o", "r">>,
     <<"M", "a", "n", "u", "f", "a", "c", "t", "u", "r", "i", "n", "g">>,
     <<"R", "e", "s", "t", "a", "u", "r", "a", "n", "t">>,
     <<"S", "e", "r", "v", "i", "c", "e">>,
     <<"W", "h", "o", "l", "e", "s", "a", "l", "e">>,
     <<"C", "o", "n", "d", "o", "m", "i", "n", "i", "u", "m", "s">>,
     <<"I", "n", "s", "t", "i", "t", "u", "t", "i", "o", "n", "a", "l">>,
     <<"O", "f", "f", "i", "c", "e">>,
     <<"R", "e", "t", "a", "i", "l">>}

\* the agency revision adds 'Other'
natureOfBusinessOptionsAgency == natureOfBusinessOptions \cup {<<"O", "t", "h", "e", "r">>}

cityLimitsOptions ==
    {<<"I", "n", "s", "i", "d", "e">>,
     <<"O", "u", "t", "s", "i", "d", "e">>}

industryTypeOptions ==
    {<<"c", "o", "n", "s", "t", "r", "u", "c", "t", "i", "o", "n">>,
     <<"m", "a", "n", "u", "f", "a", "c", "t", "u", "r", "i", "n", "g">>,
     <<"r", "e", "t", "a", "i", "l">>,
     <<"t", "r", "a", "n", "s", "p", "o", "r", "t", "a", "t", "i", "o", "n">>,
     <<"h", "e", "a", "l", "t", "h", "c", "a", "r", "e">>,
     <<"t", "e", "c", "h", "n", "o", "l", "o", "g", "y">>,
     <<"o", "t", "h", "e", "r">>}

formSchemaAcord ==
    [policy_eff_date |-> Field("Proposed Eff. Date", "date", TRUE),
     policy_exp_date |-> Field("Proposed Exp. Date", "date", TRUE),
     legal_name |-> Field("Applicant Legal Name", "text", TRUE),
     applicant_address |-> Field("Applicant Mailing Address", "textarea", TRUE),
     business_phone |-> Field("Applicant Business Phone", "text", TRUE),
     applicant_entity_type |-> Field("Applicant Entity Type", "select", TRUE),
     fein |-> Field("FEIN", "text", TRUE),
     sic |-> Field("SIC Code", "text", FALSE),
     naics |-> Field("NAICS Code", "text", FALSE),
     contact_name |-> Field("Primary Contact Name", "text", TRUE),
     contact_email |-> Field("Primary Contact Email", "email", TRUE),
     contact_phone |-> Field("Primary Contact Phone", "text", TRUE),
     premise_address |-> Field("Primary Premise Address", "textarea", TRUE),
     city_limits |-> Field("Premise City Limits", "select", TRUE),
     annual_revenue |-> Field("Annual Revenue ($)", "number", TRUE),
     nature_of_business |-> Field("Nature of Business", "select", TRUE),
     business_description |-> Field("Description of Operations", "textarea", TRUE)]

formSchemaAgency ==
    [agency_name |-> Field("Agency Name", "text", TRUE),
     agency_address |-> Field("Agency Address", "textarea", TRUE),
     agency_contact_name |-> Field("Agency Contact", "text", FALSE),
     agency_phone |-> Field("Agency Phone", "text", TRUE),
     agency_email |-> Field("Agency Email", "email", FALSE),
     policy_eff_date |-> Field("Proposed Eff. Date", "date", TRUE),
     policy_exp_date |-> Field("Proposed Exp. Date", "date", TRUE),
     legal_name |-> Field("Applicant Legal Name", "text", TRUE),
     applicant_address |-> Field("Applicant Mailing Address", "textarea", TRUE),
     business_phone |-> Field("Applicant Business Phone", "text", TRUE),
     applicant_entity_type |-> Field("Applicant Entity Type", "select", TRUE),
     fein |-> Field("FEIN", "text", FALSE),
     sic |-> Field("SIC Code", "text", FALSE),
     naics |-> Field("NAICS Code", "text", FALSE),
     contact_name |-> Field("Primary Contact Name", "text", TRUE),
     contact_email |-> Field("Primary Contact Email", "email", TRUE),
     contact_phone |-> Field("Primary Contact Phone", "text", TRUE),
     premise_address |-> Field("Primary Premise Address", "textarea", TRUE),
     city_limits |-> Field("Premise City Limits", "select", FALSE),
     annual_revenue |-> Field("Annual Revenue ($)", "number", TRUE),
     nature_of_business |-> Field("Nature of Business", "select", TRUE),
     business_description |-> Field("Description of Operations", "textarea", TRUE)]

formSchemaLegacy ==
    [legal_name |-> Field("Legal Name", "text", TRUE),
     business_description |-> Field("Business Description", "textarea", FALSE),
     annual_revenue |-> Field("Annual Revenue", "number", FALSE),
     num_vehicles |-> Field("Number of Vehicles (Trucking/Auto)", "number", FALSE),
     contact_email |-> Field("Contact Email", "email", TRUE),
     address |-> Field("Business Address", "text", TRUE),
     fein |-> Field("Federal Employer Identification Number (FEIN)", "text", TRUE),
     industry_type |-> Field("Industry Type", "select", FALSE),
     has_employees |-> Field("Has Employees", "checkbox", FALSE)]

\* the formSchema a module imports from '../config/formSchema'
formSchema(r) ==
    CASE r = "acord" -> formSchemaAcord
      [] r = "agency" -> formSchemaAgency
      [] r = "legacy" -> formSchemaLegacy

\* Object.keys(formSchema)
SchemaKeys(r) == DOMAIN formSchema(r)

AllKeys == UNION {SchemaKeys(r) : r \in Revs}

----------------------------------------------------------------------------
(* Validator helpers *)

isEmpty(v) == v.k \in {"null", "undefined"} \/ (v.k = "string" /\ v.s = <<>>)

isNonEmptyString(v) == v.k = "string" /\ Len(trim(v.s)) > 0

isNonNegativeNumber(v) == v.k = "number" /\ v.n >= 0

\* the class [\d\s()-.] : digits, white space, '(' and the range ')' .. '.'
PhoneClass == Digit \cup WhiteSpace \cup {"(", ")", "*", "+", ",", "-", "."}

\* /^[+]?[\d\s()-.]{7,}$/ ; '+' is itself in the class
isPhoneNumber(v) ==
    /\ v.k = "string"
    /\ LET t == trim(v.s) IN Len(t) >= 7 /\ AllIn(t, PhoneClass)

\* /\S+@\S+\.\S+/ found anywhere in cs
MatchesEmail(cs) ==
    \E i \in 2..Len(cs) : \E j \in (i + 2)..(Len(cs) - 1) :
        /\ cs[i] = "@"
        /\ cs[i - 1] \notin WhiteSpace
        /\ cs[j] = "."
        /\ \A x \in (i + 1)..(j - 1) : cs[x] \notin WhiteSpace
        /\ cs[j + 1] \notin WhiteSpace

isEmail(v) == v.k = "string" /\ MatchesEmail(trim(v.s))

\* /^\d{a}-\d{b}$/ and /^\d{a}-\d{b}-\d{c}$/ are runs of digits joined by '-'
RECURSIVE DigitGroups(_, _)
DigitGroups(cs, lens) ==
    IF lens = <<>> THEN cs = <<>>
    ELSE LET m == Head(lens) IN
         /\ Len(cs) >= m
         /\ AllIn(SubSeq(cs, 1, m), Digit)
         /\ IF Len(lens) = 1
            THEN Len(cs) = m
            ELSE /\ Len(cs) > m
                 /\ cs[m + 1] = "-"
                 /\ DigitGroups(SubSeq(cs, m + 2, Len(cs)), Tail(lens))

isIsoDateString(v) == v.k = "string" /\ DigitGroups(trim(v.s), <<4, 2, 2>>)

isValidOption(v, options) == ~isEmpty(v) /\ v.k = "string" /\ v.s \in options

isFeinFormat(v) == v.k = "string" /\ DigitGroups(trim(v.s), <<2, 7>>)

\* typeof v === 'string' && v.trim().length >= m
MinLength(v, m) == v.k = "string" /\ Len(trim(v.s)) >= m

\* isEmpty(v) || /^\d{m}$/.test(v.trim()) : v.trim is not a function unless v is a string
CodeThrows(v) == ~isEmpty(v) /\ v.k /= "string"

CodeFormat(v, m) == isEmpty(v) \/ (v.k = "string" /\ DigitGroups(trim(v.s), <<m>>))

----------------------------------------------------------------------------
(* formSchema[key].validation(v) *)

validationAcord(key, v) ==
    CASE key \in {"policy_eff_date", "policy_exp_date"} -> isIsoDateString(v)
      [] key \in {"legal_name", "contact_name"} -> isNonEmptyString(v)
      [] key \in {"applicant_address", "premise_address"} -> MinLength(v, 15)
      [] key \in {"business_phone", "contact_phone"} -> isPhoneNumber(v)
      [] key = "applicant_entity_type" -> isValidOption(v, applicantBusinessTypeOptions)
      [] key = "fein" -> isFeinFormat(v)
      [] key = "sic" -> CodeFormat(v, 4)
      [] key = "naics" -> CodeFormat(v, 6)
      [] key = "contact_email" -> isEmail(v)
      [] key = "city_limits" -> isValidOption(v, cityLimitsOptions)
      [] key = "annual_revenue" -> isNonNegativeNumber(v)
      [] key = "nature_of_business" -> isValidOption(v, natureOfBusinessOptions)
      [] key = "business_description" -> MinLength(v, 10)

validationAgency(key, v) ==
    CASE key \in {"agency_name", "agency_address"} -> isNonEmptyString(v)
      [] key = "agency_contact_name" -> isEmpty(v) \/ isNonEmptyString(v)
      [] key = "agency_phone" -> isPhoneNumber(v)
      [] key = "agency_email" -> isEmpty(v) \/ isEmail(v)
      [] key = "fein" -> isEmpty(v) \/ isFeinFormat(v)
      [] key = "city_limits" -> isEmpty(v) \/ isValidOption(v, cityLimitsOptions)
      [] key = "nature_of_business" -> isValidOption(v, natureOfBusinessOptionsAgency)
      [] OTHER -> validationAcord(key, v)

validationLegacy(key, v) ==
    CASE key = "legal_name" -> isNonEmptyString(v)
      [] key = "business_description" -> isEmpty(v) \/ v.k = "string"
      [] key = "annual_revenue" -> isEmpty(v) \/ isNonNegativeNumber(v)
      [] key = "num_vehicles" -> isEmpty(v) \/ (v.k = "number" /\ v.n % 10 = 0 /\ v.n >= 0)
      [] key = "contact_email" -> isEmail(v)
      [] key = "address" -> MinLength(v, 5)
      [] key = "fein" -> isFeinFormat(v)
      [] key = "industry_type" -> isEmpty(v) \/ (v.k = "string" /\ v.s \in industryTypeOptions)
      [] key = "has_employees" -> isEmpty(v) \/ v.k = "boolean"

validation(r, key, v) ==
    CASE r = "acord" -> validationAcord(key, v)
      [] r = "agency" -> validationAgency(key, v)
      [] r = "legacy" -> validationLegacy(key, v)

\* the validator raises a TypeError instead of returning
validationThrows(r, key, v) ==
    r \in {"acord", "agency"} /\ key \in {"sic", "naics"} /\ CodeThrows(v)

----------------------------------------------------------------------------
(* Full-schema validation *)

\* fieldName.startsWith('agency_')
AgencyKeys == {"agency_name", "agency_address", "agency_contact_name", "agency_phone", "agency_email"}

\* the message validateAcord125Data stores for a value that fails its validator
InvalidMessage(r, key, v) ==
    LET cfg == formSchema(r)[key] IN
    CASE key = "fein" -> "Invalid " \o cfg.label \o ". Format: XX-XXXXXXX"
      [] key \in {"policy_eff_date", "policy_exp_date"} ->
            "Invalid date format for " \o cfg.label \o ". Use YYYY-MM-DD."
      [] cfg.type = "email" -> "Invalid " \o cfg.label \o " format."
      [] cfg.type = "number" /\ ~isNonNegativeNumber(v) -> cfg.label \o " must be a non-negative number."
      [] key \in {"applicant_address", "premise_address"} -> cfg.label \o " must be at least 15 characters."
      [] key = "business_description" -> cfg.label \o " must be at least 10 characters."
      [] cfg.type = "select" -> "Invalid selection for " \o cfg.label \o "."
      [] r = "agency" /\ key = "sic" -> "Invalid " \o cfg.label \o ". Expected 4 digits."
      [] r = "agency" /\ key = "naics" -> "Invalid " \o cfg.label \o ". Expected 6 digits."
      [] OTHER -> "Invalid value for " \o cfg.label \o "."

\* the result of a validator that has looked at no field yet
ValidStart == [threw |-> FALSE, isValid |-> TRUE, errors |-> [x \in {} |-> ""]]

\* one iteration of the loop of validateAcord125Data (config/formSchema.js)
AcordStep(acc, data, key) ==
    LET cfg == formSchema("acord")[key]
        value == Prop(data, key)
    IN IF acc.threw THEN acc
       ELSE IF cfg.required /\ isEmpty(value)
       THEN [acc EXCEPT !.isValid = FALSE,
                        !.errors = Put(acc.errors, key, cfg.label \o " is required")]
       ELSE IF isEmpty(value) THEN acc
       ELSE IF validationThrows("acord", key, value) THEN [acc EXCEPT !.threw = TRUE]
       ELSE IF validation("acord", key, value) THEN acc
       ELSE [acc EXCEPT !.isValid = FALSE,
                        !.errors = Put(acc.errors, key, InvalidMessage("acord", key, value))]

\* faulty variant of AgencyStep: a missing required field is reported and
\* isValid is left as it was
AgencyStepKeepsValid(acc, data, key) ==
    LET cfg == formSchema("agency")[key]
        value == Prop(data, key)
    IN IF acc.threw THEN acc
       ELSE IF cfg.required /\ isEmpty(value) /\ key \notin AgencyKeys
       THEN [acc EXCEPT !.errors = Put(acc.errors, key, cfg.label \o " is required")]
       ELSE IF isEmpty(value) THEN acc
       ELSE IF validationThrows("agency", key, value) THEN [acc EXCEPT !.threw = TRUE]
       ELSE IF validation("agency", key, value) THEN acc
       ELSE [acc EXCEPT !.isValid = FALSE,
                        !.errors = Put(acc.errors, key, InvalidMessage("agency", key, value))]

\* one iteration of the loop of validateAcord125Data (agency-field revision):
\* an empty required agency_ field records nothing
AgencyStep(acc, data, key) ==
    LET cfg == formSchema("agency")[key]
        value == Prop(data, key)
    IN IF acc.threw THEN acc
       ELSE IF cfg.required /\ isEmpty(value) /\ key \notin AgencyKeys
       THEN [acc EXCEPT !.isValid = FALSE,
                        !.errors = Put(acc.errors, key, cfg.label \o " is required")]
       ELSE IF isEmpty(value) THEN acc
       ELSE IF validationThrows("agency", key, value) THEN [acc EXCEPT !.threw = TRUE]
       ELSE IF validation("agency", key, value) THEN acc
       ELSE [acc EXCEPT !.isValid = FALSE,
                        !.errors = Put(acc.errors, key, InvalidMessage("agency", key, value))]

\* one iteration of the forEach of validateFormData (lib/validationService)
FormDataStep(r, acc, data, key) ==
    LET cfg == formSchema(r)[key]
        value == Prop(data, key)
    IN IF acc.threw THEN acc
       ELSE IF cfg.required /\ isEmpty(value)
       THEN [acc EXCEPT !.isValid = FALSE,
                        !.errors = Put(acc.errors, key, cfg.label \o " is required")]
       ELSE IF isEmpty(value) THEN acc
       ELSE IF validationThrows(r, key, value) THEN [acc EXCEPT !.threw = TRUE]
       ELSE IF validation(r, key, value) THEN acc
       ELSE [acc EXCEPT !.isValid = FALSE,
                        !.errors = Put(acc.errors, key, "Invalid " \o cfg.label)]

RECURSIVE AcordLoop(_, _, _)
AcordLoop(acc, data, keys) ==
    IF keys = {} THEN acc
    ELSE LET key == CHOOSE x \in keys : TRUE
         IN AcordLoop(AcordStep(acc, data, key), data, keys \ {key})

RECURSIVE AgencyLoop(_, _, _)
AgencyLoop(acc, data, keys) ==
    IF keys = {} THEN acc
    ELSE LET key == CHOOSE x \in keys : TRUE
         IN AgencyLoop(AgencyStep(acc, data, key), data, keys \ {key})

RECURSIVE FormDataLoop(_, _, _, _)
FormDataLoop(r, acc, data, keys) ==
    IF keys = {} THEN acc
    ELSE LET key == CHOOSE x \in keys : TRUE
         IN FormDataLoop(r, FormDataStep(r, acc, data, key), data, keys \ {key})

\* validateAcord125Data(formData) of the revision r ("acord" or "agency")
validateAcord125Data(r, data) ==
    IF r = "agency"
    THEN AgencyLoop(ValidStart, data, SchemaKeys("agency"))
    ELSE AcordLoop(ValidStart, data, SchemaKeys("acord"))

\* validateFormData(formData, formSchema)
validateFormData(r, data) == FormDataLoop(r, ValidStart, data, SchemaKeys(r))

----------------------------------------------------------------------------
(* Type coercion *)

\* the numberWords table, on the lower-cased trimmed text
numberWords(cs) ==
    CASE cs = <<"o", "n", "e">> -> <<"1">>
      [] cs = <<"t", "w", "o">> -> <<"2">>
      [] cs = <<"t", "h", "r", "e", "e">> -> <<"3">>
      [] cs = <<"f", "o", "u", "r">> -> <<"4">>
      [] cs = <<"f", "i", "v", "e">> -> <<"5">>
      [] cs = <<"s", "i", "x">> -> <<"6">>
      [] cs = <<"s", "e", "v", "e", "n">> -> <<"7">>
      [] cs = <<"e", "i", "g", "h", "t">> -> <<"8">>
      [] cs = <<"n", "i", "n", "e">> -> <<"9">>
      [] cs = <<"t", "e", "n">> -> <<"1", "0">>
      [] cs = <<"z", "e", "r", "o">> -> <<"0">>
      [] OTHER -> cs

\* value.trim().match(/([mk])$/i): 1000000, 1000 or 1
Multiplier(cs) ==
    LET t == trim(cs) IN
    IF t = <<>> THEN 1
    ELSE IF LowerChar(t[Len(t)]) = "m" THEN 1000000
    ELSE IF LowerChar(t[Len(t)]) = "k" THEN 1000
    ELSE 1

\* parseNumeric of lib/extractionService.js; Null stands for the null it returns
parseNumeric(value) ==
    IF value.k = "number" THEN value
    ELSE IF value.k = "string"
    THEN LET potentialNumStr == numberWords(toLowerCase(trim(value.s)))
             cleanedValue == trim(Strip(potentialNumStr, {"$", ","} \cup WhiteSpace))
             num == parseFloat(cleanedValue)
         IN IF cleanedValue = <<>> THEN Null
            ELSE IF num.nan THEN Null
            ELSE Num(num.n * Multiplier(value.s))
    ELSE Null

\* parseNumeric of pages/api/extract-data.js (the copy the merge step uses)
parseNumericApi(value) ==
    IF value.k = "number" THEN value
    ELSE IF value.k = "string"
    THEN LET potentialNum == numberWords(toLowerCase(trim(value.s)))
             cleanedValue == trim(Strip(potentialNum, {"$", ","} \cup WhiteSpace))
             num == parseFloat(cleanedValue)
         IN IF cleanedValue = <<>> THEN Null
            ELSE IF num.nan THEN Null
            ELSE Num(num.n * Multiplier(value.s))
    ELSE Null

truthy ==
    {<<"t", "r", "u", "e">>, <<"y", "e", "s">>, <<"o", "n">>, <<"1">>,
     <<"a", "f", "f", "i", "r", "m", "a", "t", "i", "v", "e">>,
     <<"c", "h", "e", "c", "k", "e", "d">>}

falsy ==
    {<<"f", "a", "l", "s", "e">>, <<"n", "o">>, <<"o", "f", "f">>, <<"0">>,
     <<"n", "e", "g", "a", "t", "i", "v", "e">>,
     <<"u", "n", "c", "h", "e", "c", "k", "e", "d">>}

\* a coercion either gives a canonical value or throws
Coerced(v) == [ok |-> TRUE, v |-> v]

CoercionFailed == [ok |-> FALSE, v |-> Null]

\* "1. Coerce Type" of Step 4 of the extraction handler
MergeCoerce(r, fieldName, rawValue) ==
    LET type == formSchema(r)[fieldName].type IN
    IF type = "number"
    THEN LET parsed == parseNumericApi(rawValue) IN
         IF parsed = Null THEN CoercionFailed
         ELSE IF fieldName = "num_vehicles" /\ parsed.n % 10 /= 0 THEN CoercionFailed
         ELSE Coerced(parsed)
    ELSE IF type = "checkbox"
    THEN LET lowerVal == trim(toLowerCase(String(rawValue))) IN
         IF lowerVal \in truthy THEN Coerced(Bool(TRUE))
         ELSE IF lowerVal \in falsy THEN Coerced(Bool(FALSE))
         ELSE CoercionFailed
    ELSE Coerced(Str(trim(String(rawValue))))

\* "1. Coerce Type based on schema" of updateFormField in process-voice
VoiceCoerce(r, fieldName, value) ==
    LET type == formSchema(r)[fieldName].type IN
    IF type = "number"
    THEN LET potentialNum == numberWords(toLowerCase(trim(String(value))))
             parsed == parseFloat(Strip(potentialNum, {"$", ",", " "}))
         IN IF parsed.nan THEN CoercionFailed
            ELSE IF fieldName = "num_vehicles" /\ parsed.n % 10 /= 0 THEN CoercionFailed
            ELSE Coerced(Num(parsed.n))
    ELSE IF type = "checkbox"
    THEN LET lowerVal == trim(toLowerCase(String(value))) IN
         IF lowerVal \in truthy THEN Coerced(Bool(TRUE))
         ELSE IF lowerVal \in falsy THEN Coerced(Bool(FALSE))
         ELSE CoercionFailed
    ELSE Coerced(Str(trim(String(value))))

\* parseNumeric of the earlier extraction handler (pages/api/extract-data.js):
\* no number words
parseNumericEarlier(value) ==
    IF value.k = "number" THEN value
    ELSE IF value.k = "string"
    THEN LET cleanedValue == trim(Strip(value.s, {"$", ","} \cup WhiteSpace))
             num == parseFloat(cleanedValue)
         IN IF cleanedValue = <<>> THEN Null
            ELSE IF num.nan THEN Null
            ELSE Num(num.n * Multiplier(value.s))
    ELSE Null

\* the values the earlier handler's final cleanup takes for true
cleanupTruthy == {<<"t", "r", "u", "e">>, <<"y", "e", "s">>, <<"1">>, <<"o", "n">>}

\* final cleanup of one key in the earlier extraction handler
CleanupValue(type, currentValue) ==
    IF type = "number"
    THEN IF currentValue \notin {Null, Undef}
         THEN parseNumericEarlier(Str(String(currentValue)))
         ELSE currentValue
    ELSE IF type = "checkbox"
    THEN IF currentValue \notin {Null, Undef}
         THEN Bool(trim(toLowerCase(String(currentValue))) \in cleanupTruthy)
         ELSE Bool(FALSE)
    ELSE IF type \in {"text", "textarea", "email"} /\ currentValue.k = "string"
    THEN Str(trim(currentValue.s))
    ELSE currentValue

\* the earlier extraction handler from its initial map to its answer, for one
\* candidate of the model: merged as it came, then cleaned up
EarlierExtract(r, fieldName, rawValue) ==
    LET initial == [key \in SchemaKeys(r) |->
                       IF formSchema(r)[key].type = "checkbox" THEN Bool(FALSE) ELSE Null]
        merged == IF rawValue \notin {Null, Undef} THEN Put(initial, fieldName, rawValue) ELSE initial
    IN [key \in SchemaKeys(r) |-> CleanupValue(formSchema(r)[key].type, merged[key])]

----------------------------------------------------------------------------
(* Rule extractor (lib/extractionService.js) *)

\* get(obj, path) for a path of one segment; obj is [isObject, props]
get(obj, path) ==
    IF ~obj.isObject THEN Null
    ELSE IF path \notin DOMAIN obj.props THEN Null
    ELSE IF obj.props[path] = Undef THEN Null
    ELSE obj.props[path]

\* faulty variant of DirectMap: the value is stored without asking the validator
DirectMapUnvalidated(results, structuredData, r, key) ==
    LET x == get(structuredData, key) IN
    IF Truthy(x) /\ key \in SchemaKeys(r) THEN Put(results, key, x) ELSE results

\* const x = get(structuredData, key); if (x && schema[key]?.validation(x)) results[key] = x
DirectMap(results, structuredData, r, key) ==
    LET x == get(structuredData, key) IN
    IF Truthy(x) /\ key \in SchemaKeys(r) /\ validation(r, key, x)
    THEN Put(results, key, x)
    ELSE results

\* premise_address falls back to the applicant address already found
PremiseMap(results, structuredData, r) ==
    LET premiseAddress == get(structuredData, "premise_address") IN
    IF Truthy(premiseAddress) /\ "premise_address" \in SchemaKeys(r)
       /\ validation(r, "premise_address", premiseAddress)
    THEN Put(results, "premise_address", premiseAddress)
    ELSE IF Truthy(Prop(results, "applicant_address"))
    THEN Put(results, "premise_address", results["applicant_address"])
    ELSE results

RevenueMap(results, structuredData, r) ==
    LET revenueStr == get(structuredData, "annual_revenue")
        revenueNum == parseNumeric(revenueStr)
    IN IF revenueStr.k \notin {"null", "undefined"} /\ revenueNum /= Null
          /\ "annual_revenue" \in SchemaKeys(r) /\ validation(r, "annual_revenue", revenueNum)
       THEN Put(results, "annual_revenue", revenueNum)
       ELSE results

\* sic and naics are validated and stored as String(x).trim()
CodeMap(results, structuredData, r, key) ==
    LET x == get(structuredData, key)
        text == Str(trim(String(x)))
    IN IF Truthy(x) /\ key \in SchemaKeys(r) /\ validation(r, key, text)
       THEN Put(results, key, text)
       ELSE results

\* transcript.match(/(\d{2}-\d{7})/): the first match, <<>> when there is none
feinRegex(cs) ==
    LET hits == {i \in 1..(Len(cs) - 9) :
                    /\ AllIn(SubSeq(cs, i, i + 1), Digit)
                    /\ cs[i + 2] = "-"
                    /\ AllIn(SubSeq(cs, i + 3, i + 9), Digit)}
    IN IF hits = {} THEN <<>>
       ELSE LET i == CHOOSE x \in hits : \A y \in hits : x <= y IN SubSeq(cs, i, i + 9)

\* faulty variant of FeinScan: the loop has no break, the last match stays
RECURSIVE FeinScanNoBreak(_, _, _, _)
FeinScanNoBreak(results, items, r, i) ==
    IF i > Len(items) THEN [threw |-> FALSE, results |-> results]
    ELSE IF items[i].k /= "string" THEN [threw |-> TRUE, results |-> results]
    ELSE LET match == feinRegex(items[i].s) IN
         IF match /= <<>> /\ "fein" \in SchemaKeys(r) /\ validation(r, "fein", Str(match))
         THEN FeinScanNoBreak(Put(results, "fein", Str(match)), items, r, i + 1)
         ELSE FeinScanNoBreak(results, items, r, i + 1)

\* the for-of loop over the transcripts, from index i on
RECURSIVE FeinScan(_, _, _, _)
FeinScan(results, items, r, i) ==
    IF i > Len(items) THEN [threw |-> FALSE, results |-> results]
    ELSE IF items[i].k /= "string" THEN [threw |-> TRUE, results |-> results]
    ELSE LET match == feinRegex(items[i].s) IN
         IF match /= <<>> /\ "fein" \in SchemaKeys(r) /\ validation(r, "fein", Str(match))
         THEN [threw |-> FALSE, results |-> Put(results, "fein", Str(match))]
         ELSE FeinScan(results, items, r, i + 1)

\* "Extract FEIN with regex from unstructured text if not found directly"
FeinFromTranscripts(results, trs, r) ==
    IF Truthy(Prop(results, "fein")) THEN [threw |-> FALSE, results |-> results]
    ELSE IF ~trs.isArray THEN [threw |-> TRUE, results |-> results]
    ELSE FeinScan(results, trs.items, r, 1)

\* the direct mappings in the order the function makes them
DirectMappings ==
    <<"legal_name", "contact_email", "applicant_address", "premise_address", "annual_revenue",
      "sic", "naics", "contact_name", "contact_phone", "business_phone">>

\* the direct mappings from the i-th on, applied to results
RECURSIVE MapDirect(_, _, _, _)
MapDirect(results, structuredData, r, i) ==
    IF i > Len(DirectMappings) THEN results
    ELSE LET key == DirectMappings[i]
             next == CASE key = "premise_address" -> PremiseMap(results, structuredData, r)
                       [] key = "annual_revenue" -> RevenueMap(results, structuredData, r)
                       [] key \in {"sic", "naics"} -> CodeMap(results, structuredData, r, key)
                       [] OTHER -> DirectMap(results, structuredData, r, key)
         IN MapDirect(next, structuredData, r, i + 1)

\* extractWithRules(structuredData, transcripts, schema): the partial map, or a TypeError
extractWithRules(structuredData, trs, r) ==
    FeinFromTranscripts(MapDirect(EmptyObj, structuredData, r, 1), trs, r)

----------------------------------------------------------------------------
(* Steps of the extraction handler (pages/api/extract-data.js) *)

\* "Initialize result object": every schema key, null
InitExtracted(r) == [key \in SchemaKeys(r) |-> Null]

\* "Merge valid rules results"
MergeRules(r, data, rules) ==
    LET written == {key \in DOMAIN rules :
                       key \in SchemaKeys(r) /\ rules[key].k \notin {"null", "undefined"}}
    IN [key \in (DOMAIN data) \cup written |-> IF key \in written THEN rules[key] ELSE data[key]]

\* faulty variant of isMissing: any falsy value counts as missing
isMissingFalsy(currentValue) == ~Truthy(currentValue)

\* isMissing of Step 2
isMissing(currentValue) == currentValue = Null \/ currentValue = Str(<<>>)

\* Step 2: the keys of remainingSchema
Remaining(r, data) == {key \in SchemaKeys(r) : isMissing(Prop(data, key))}

\* faulty variant of Expected: formSchema.hasOwnProperty(fieldName)
ExpectedInSchema(remaining, fieldName) == fieldName \in SchemaKeys(rev)

\* Step 4: remainingSchema.hasOwnProperty(fieldName)
Expected(remaining, fieldName) == fieldName \in remaining

\* faulty variant of Accepts: the coerced candidate is written without validation
AcceptsUnvalidated(r, fieldName, rawValue) == MergeCoerce(r, fieldName, rawValue).ok

\* Step 4, inside the try: the candidate coerces and passes formSchema's validation
Accepts(r, fieldName, rawValue) ==
    LET c == MergeCoerce(r, fieldName, rawValue) IN
    /\ c.ok
    /\ ~validationThrows(r, fieldName, c.v)
    /\ validation(r, fieldName, c.v)

\* Step 4: validate and merge the LLM results
MergeLLM(r, data, remaining, llm) ==
    LET written == {fieldName \in DOMAIN llm :
                       Expected(remaining, fieldName) /\ Accepts(r, fieldName, llm[fieldName])}
    IN [key \in (DOMAIN data) \cup written |->
           IF key \in written THEN MergeCoerce(r, key, llm[key]).v ELSE data[key]]

\* faulty variant of CleanValue: Step 5 left out
CleanValueSkipped(type, v) == v

\* Step 5: final cleanup of one schema key
CleanValue(type, v) ==
    LET a == IF v = Null /\ type = "checkbox" THEN Bool(FALSE) ELSE v
        b == IF type = "number" /\ a.k /= "number" /\ a /= Null THEN Null ELSE a
    IN IF type = "checkbox" /\ b.k /= "boolean" THEN Bool(FALSE) ELSE b

\* Step 5: final cleanup
FinalCleanup(r, data) ==
    LET touched == {key \in SchemaKeys(r) : formSchema(r)[key].type \in {"number", "checkbox"}}
    IN [key \in (DOMAIN data) \cup touched |->
           IF key \in SchemaKeys(r)
           THEN CleanValue(formSchema(r)[key].type, Prop(data, key))
           ELSE data[key]]

\* faulty variant of errorResponse: the catch block answers with an empty object
errorResponseEmpty(r) == EmptyObj

\* the body of the 500 answer
errorResponse(r) ==
    [key \in SchemaKeys(r) |-> IF formSchema(r)[key].type = "checkbox" THEN Bool(FALSE) ELSE Null]

----------------------------------------------------------------------------
(* LLM fallback (extractWithLLM) *)

\* faulty variant of NothingToRequest: the short-circuit left out
NothingToRequestNever(remaining) == FALSE

\* fieldsToRequest.length === 0
NothingToRequest(remaining) == remaining = {}

\* faulty variant of NoCredential: the credential check left out
NoCredentialNever(key) == FALSE

\* !geminiApiKey
NoCredential(key) == ~key

\* outcomes of the awaited chat.sendMessage that carry no candidate map
FailureOutcomes == {"rejected", "no_candidate", "no_parts", "safety", "other_function", "text_only"}

\* what the try/catch around the call returns for an outcome
LLMReturnValue(outcome, args) == IF outcome = "args" THEN args ELSE EmptyObj

----------------------------------------------------------------------------
(* Client side of an extraction (pages/index.js) *)

AGENCY_DEFAULTS ==
    [agency_name |-> Str(<<"T", "a", "t", "c", "h", " ", "C", "o", ".">>),
     agency_address |-> Str(<<"1", "0", "3", "5", " ", "R", "o", "c", "k", "i", "n", "g", "h", "a", "m", " ", "S", "t", "r", "e", "e", "t", ",", " ", "A", "l", "p", "h", "a", "r", "e", "t", "t", "a", ",", " ", "G", "A", ",", " ", "3", "0", "0", "2", "2">>),
     agency_contact_name |-> Str(<<"S", "h", "a", "b", "a", "i", "g", " ", "C", "h", "a", "t", "h", "a">>),
     agency_phone |-> Str(<<"(", "7", "7", "0", ")", " ", "4", "7", "0", "-", "2", "9", "3", "6">>),
     agency_email |-> Str(<<"s", "h", "a", "b", "a", "i", "g", "@", "t", "a", "t", "c", "h", "i", "n", "s", "u", "r", "a", "n", "c", "e", ".", "c", "o", "m">>)]

FIELD_DEFAULTS ==
    [policy_eff_date |-> Str(<<"2", "0", "2", "5", "-", "0", "4", "-", "0", "1">>),
     policy_exp_date |-> Str(<<"2", "0", "2", "6", "-", "0", "4", "-", "0", "1">>),
     nature_of_business |-> Str(<<"O", "t", "h", "e", "r">>)]

applyDefaultsToFormData(currentData) ==
    LET boxes == {key \in SchemaKeys("agency") : formSchema("agency")[key].type = "checkbox"}
    IN [key \in (DOMAIN currentData) \cup (DOMAIN AGENCY_DEFAULTS) \cup (DOMAIN FIELD_DEFAULTS) \cup boxes |->
           IF key \in DOMAIN AGENCY_DEFAULTS THEN AGENCY_DEFAULTS[key]
           ELSE IF key \in DOMAIN FIELD_DEFAULTS /\ isEmpty(Prop(currentData, key)) THEN FIELD_DEFAULTS[key]
           ELSE IF key \in boxes /\ Prop(currentData, key).k \in {"null", "undefined"} THEN Bool(FALSE)
           ELSE currentData[key]]

\* completeExtractedData / emptyFormData of the earlier pages/index.js
CompleteData(r, data) ==
    [key \in SchemaKeys(r) |->
        IF key \in DOMAIN data THEN data[key]
        ELSE IF formSchema(r)[key].type = "checkbox" THEN Bool(FALSE) ELSE Null]

\* the form data the client shows after the extraction answered with resp
ClientFormData(r, resp) ==
    IF r = "agency"
    THEN applyDefaultsToFormData(IF resp.status = 200 THEN resp.body ELSE EmptyObj)
    ELSE CompleteData(r, IF resp.status = 200 THEN resp.body ELSE EmptyObj)

\* validateForm(data) of the client
validateForm(r, data) ==
    IF r = "agency" THEN validateAcord125Data("agency", data) ELSE validateFormData(r, data)

----------------------------------------------------------------------------
(* Inputs *)

\* most keys a sampled structured_data object holds
MaxSrcKeys == 1

\* most transcripts of a sampled request
MaxTranscripts == 2

\* most keys of a candidate map the model answers with
MaxCandKeys == 1

\* <<key, value>> choices for structured_data
SrcPairs ==
    {<<"legal_name", Str(<<"A", "c", "m", "e", " ", "L", "L", "C">>)>>,
     <<"legal_name", Str(<<" ", " ">>)>>,
     <<"contact_email", Str(<<"a", "@", "b", ".", "c", "o">>)>>,
     <<"contact_email", Str(<<"n", "o", "p", "e">>)>>,
     <<"applicant_address", Str(<<"1", " ", "M", "a", "i", "n", " ", "S", "t", ",", " ", "T", "o", "w", "n", ",", " ", "G", "A">>)>>,
     <<"applicant_address", Str(<<"s", "h", "o", "r", "t">>)>>,
     <<"premise_address", Str(<<"9", " ", "O", "a", "k", " ", "A", "v", "e", ",", " ", "C", "i", "t", "y", ",", " ", "T", "X">>)>>,
     <<"annual_revenue", Str(<<"5", "0", "k">>)>>,
     <<"annual_revenue", Num(0)>>,
     <<"annual_revenue", Str(<<"a", "b", "c">>)>>,
     <<"annual_revenue", Str(<<"-", "5">>)>>,
     <<"sic", Str(<<"1", "2", "3", "4">>)>>,
     <<"sic", Num(12340)>>,
     <<"sic", Str(<<" ">>)>>,
     <<"naics", Str(<<"1", "2">>)>>,
     <<"contact_name", Str(<<"A", "l">>)>>,
     <<"contact_phone", Str(<<"5", "5", "5", "-", "1", "2", "3", "4">>)>>,
     <<"business_phone", Str(<<"1", "2", "3">>)>>,
     <<"fein", Str(<<"1", "2", "-", "3", "4", "5", "6", "7", "8", "9">>)>>}

\* <<key, raw value>> choices for the arguments of populateFormFields
CandPairs ==
    {<<"fein", Str(<<"9", "9", "-", "9", "9", "9", "9", "9", "9", "9">>)>>,
     <<"fein", Str(<<"1", "2", "3">>)>>,
     <<"annual_revenue", Str(<<"5", "0", "k">>)>>,
     <<"annual_revenue", Str(<<"a", "b", "c">>)>>,
     <<"annual_revenue", Str(<<"-", "5">>)>>,
     <<"legal_name", Str(<<"B", "o", "b", " ", "I", "n", "c">>)>>,
     <<"legal_name", Null>>,
     <<"applicant_entity_type", Str(<<"L", "L", "C">>)>>,
     <<"applicant_entity_type", Str(<<"l", "l", "c">>)>>,
     <<"policy_eff_date", Str(<<"4", "/", "1", "/", "2", "5">>)>>,
     <<"has_employees", Str(<<"y", "e", "s">>)>>,
     <<"has_employees", Str(<<"m", "a", "y", "b", "e">>)>>,
     <<"num_vehicles", Str(<<"1", ".", "5">>)>>,
     <<"industry_type", Str(<<"r", "e", "t", "a", "i", "l">>)>>,
     <<"invented_field", Str(<<"x">>)>>}

\* objects of at most n properties drawn from pairs
RECURSIVE Objects(_, _)
Objects(pairs, n) ==
    IF n = 0 THEN {EmptyObj}
    ELSE LET smaller == Objects(pairs, n - 1) IN
         smaller \cup {Put(o, p[1], p[2]) : <<o, p>> \in {<<o, p>> \in smaller \X pairs : p[1] \notin DOMAIN o}}

JsObject(props) == [isObject |-> TRUE, props |-> props]

JsArray(items) == [isArray |-> TRUE, items |-> items]

\* a body without the property: the handler's default {} or [] applies
NoStructuredData == JsObject(EmptyObj)

NoTranscripts == JsArray(<<>>)

\* the raw source of the end-to-end scenario
ScenarioSource ==
    JsObject([legal_name |-> Str(<<"A", "c", "m", "e", " ", "L", "L", "C">>), fein |-> Str(<<"1", "2", "-", "3", "4", "5", "6", "7", "8", "9">>)])

StructuredSamples ==
    {JsObject(o) : o \in Objects(SrcPairs, MaxSrcKeys)}
        \cup {ScenarioSource, [isObject |-> FALSE, props |-> EmptyObj]}

TranscriptTexts ==
    {Str(<<"E", "I", "N", " ", "1", "2", "-", "3", "4", "5", "6", "7", "8", "9">>), Str(<<"t", "a", "x", " ", "i", "d", " ", "9", "8", "-", "7", "6", "5", "4", "3", "2", "1", " ", "o", "k">>), Str(<<"h", "e", "l", "l", "o">>)}

RECURSIVE SeqsUpTo(_, _)
SeqsUpTo(S, n) ==
    IF n = 0 THEN {<<>>}
    ELSE LET shorter == SeqsUpTo(S, n - 1) IN
         shorter \cup {Append(q, x) : <<q, x>> \in shorter \X S}

TranscriptSamples ==
    {JsArray(q) : q \in SeqsUpTo(TranscriptTexts, MaxTranscripts)}
        \cup {JsArray(<<Null>>),
              JsArray(<<Str(<<"E", "I", "N", " ", "1", "2", "-", "3", "4", "5", "6", "7", "8", "9">>), Null>>),
              [isArray |-> FALSE, items |-> <<>>]}

\* the sampled request bodies <<structured_data, unstructured_transcripts>>
Requests ==
    {<<sd, NoTranscripts>> : sd \in StructuredSamples}
        \cup {<<NoStructuredData, t>> : t \in TranscriptSamples}

CandidateMaps == Objects(CandPairs, MaxCandKeys)

\* the sub-schemas extractWithLLM is applied to on its own
DirectSchemas(r) == {{}, {"fein"}, {"fein", "legal_name"}}

----------------------------------------------------------------------------
(* State machine of one extraction run *)

NotValidated == [threw |-> FALSE, isValid |-> FALSE, errors |-> [x \in {} |-> ""]]

NoResponse == [status |-> 0, body |-> EmptyObj]

NoCoercion == [field |-> "", raw |-> Null]

\* the variables of the coercion comparison, unused by an extraction run
CoerceIdle == coerceIn = NoCoercion /\ voiceOut = CoercionFailed /\ mergeOut = CoercionFailed

\* a voice command that names no field
\* (company: the company that was selected when the command was recorded)
NoCommand ==
    [intent |-> "NONE", field |-> "", value |-> Null, handled |-> TRUE, company |-> ""]

\* no save-form request was made
NoSave == [companyId |-> "", formData |-> EmptyObj, isAutoSave |-> FALSE,
           finalize |-> FALSE, status |-> 0, stage |-> "none"]

\* the variables of an editing session, unused elsewhere
\* no request is served side by side with another
NoRuns == <<>>

\* no load-form request was made
NoLoad == [user |-> "", companyId |-> "", status |-> 0, body |-> Null, stage |-> "none"]

\* the variables of a company selection while none is under way
SelectionIdle ==
    /\ loadRequest = NoLoad
    /\ staleSave = NoSave
    /\ isLoadingSavedData = FALSE
    /\ isLoadingMemory = FALSE
    /\ isExtracting = FALSE
    /\ selections = 0

SessionIdle ==
    /\ selectedCompanyId = ""
    /\ mockDatabase = EmptyObj
    /\ command = NoCommand
    /\ isSaving = FALSE
    /\ saveRequest = NoSave
    /\ pdfRequest = EmptyObj
    /\ runs = NoRuns
    /\ SelectionIdle

RunIdle ==
    /\ rulesResults = EmptyObj
    /\ extractedData = EmptyObj
    /\ llmResults = EmptyObj
    /\ llmCalls = 0
    /\ llmThrew = FALSE
    /\ llmOutcome = "none"
    /\ response = NoResponse

Init ==
    /\ rev \in Revs
    /\ apiKey \in BOOLEAN
    /\ caller \in {"handler", "direct"}
    /\ IF caller = "handler"
       THEN /\ \E req \in Requests : structured_data = req[1] /\ transcripts = req[2]
            /\ remainingSchema = {}
            /\ phase = "START"
       ELSE /\ structured_data = NoStructuredData
            /\ transcripts = NoTranscripts
            /\ remainingSchema \in DirectSchemas(rev)
            /\ phase = "CALLED"
    /\ RunIdle
    /\ formData = EmptyObj
    /\ validationResult = NotValidated
    /\ CoerceIdle
    /\ edits = 0
    /\ SessionIdle

\* handler: initialise extractedData, run the rules, merge their results;
\* an exception of the rule stage is answered by the catch block with 500
RunRules ==
    /\ caller = "handler" /\ phase = "START"
    /\ \E rr \in {extractWithRules(structured_data, transcripts, rev)} :
       IF rr.threw
       THEN /\ response' = [status |-> 500, body |-> errorResponse(rev)]
            /\ phase' = "RESPONDED"
            /\ UNCHANGED <<rulesResults, extractedData>>
       ELSE /\ rulesResults' = rr.results
            /\ extractedData' = MergeRules(rev, InitExtracted(rev), rr.results)
            /\ phase' = "RULES_DONE"
            /\ UNCHANGED response
    /\ UNCHANGED <<sessionVars, rev, apiKey, structured_data, transcripts, caller, remainingSchema,
                   llmResults, llmCalls, llmThrew, llmOutcome, formData, validationResult,
                   voiceOut, mergeOut, coerceIn, edits>>

\* handler, Step 2
ComputeGap ==
    /\ caller = "handler" /\ phase = "RULES_DONE"
    /\ remainingSchema' = Remaining(rev, extractedData)
    /\ phase' = "GAP_COMPUTED"
    /\ UNCHANGED <<sessionVars, rev, apiKey, structured_data, transcripts, caller, rulesResults,
                   extractedData, llmResults, llmCalls, llmThrew, llmOutcome, response,
                   formData, validationResult, voiceOut, mergeOut, coerceIn, edits>>

\* extractWithLLM is about to run
AtLLM == (caller = "handler" /\ phase = "GAP_COMPUTED") \/ (caller = "direct" /\ phase = "CALLED")

\* where extractWithLLM returns to
Returned(handlerPhase) == IF caller = "handler" THEN handlerPhase ELSE "RETURNED"

\* nothing to request: the handler skips Step 3, extractWithLLM returns {} at once
LLMSkip ==
    /\ AtLLM /\ NothingToRequest(remainingSchema)
    /\ llmResults' = EmptyObj
    /\ llmOutcome' = "short_circuit"
    /\ phase' = Returned("LLM_SKIPPED")
    /\ UNCHANGED <<sessionVars, rev, apiKey, structured_data, transcripts, caller, rulesResults,
                   extractedData, remainingSchema, llmCalls, llmThrew, response,
                   formData, validationResult, voiceOut, mergeOut, coerceIn, edits>>

\* no GEMINI_API_KEY: extractWithLLM returns {}
LLMNoCredential ==
    /\ AtLLM /\ ~NothingToRequest(remainingSchema) /\ NoCredential(apiKey)
    /\ llmResults' = EmptyObj
    /\ llmOutcome' = "no_credential"
    /\ phase' = Returned("LLM_DONE")
    /\ UNCHANGED <<sessionVars, rev, apiKey, structured_data, transcripts, caller, rulesResults,
                   extractedData, remainingSchema, llmCalls, llmThrew, response,
                   formData, validationResult, voiceOut, mergeOut, coerceIn, edits>>

\* new GoogleGenerativeAI(...) or getGenerativeModel(...) throws: both stand
\* before the try block, the exception leaves extractWithLLM and the handler's
\* catch block answers 500
LLMConstructFails ==
    /\ AtLLM /\ ~NothingToRequest(remainingSchema) /\ ~NoCredential(apiKey)
    /\ llmThrew' = TRUE
    /\ llmOutcome' = "construct_failed"
    /\ IF caller = "handler"
       THEN response' = [status |-> 500, body |-> errorResponse(rev)] /\ phase' = "RESPONDED"
       ELSE UNCHANGED response /\ phase' = "RETURNED"
    /\ UNCHANGED <<sessionVars, rev, apiKey, structured_data, transcripts, caller, rulesResults,
                   extractedData, remainingSchema, llmResults, llmCalls,
                   formData, validationResult, voiceOut, mergeOut, coerceIn, edits>>

\* await chat.sendMessage(prompt) is issued
LLMSend ==
    /\ AtLLM /\ ~NothingToRequest(remainingSchema) /\ ~NoCredential(apiKey)
    /\ llmCalls' = llmCalls + 1
    /\ llmOutcome' = "pending"
    /\ phase' = "LLM_WAIT"
    /\ UNCHANGED <<sessionVars, rev, apiKey, structured_data, transcripts, caller, rulesResults,
                   extractedData, remainingSchema, llmResults, llmThrew, response,
                   formData, validationResult, voiceOut, mergeOut, coerceIn, edits>>

\* the call settles; extractWithLLM returns the arguments of populateFormFields or {}
LLMReturn ==
    /\ phase = "LLM_WAIT"
    /\ \E outcome \in FailureOutcomes \cup {"args"} :
       \E args \in IF outcome = "args" THEN CandidateMaps ELSE {EmptyObj} :
          /\ llmResults' = LLMReturnValue(outcome, args)
          /\ llmOutcome' = outcome
    /\ phase' = Returned("LLM_DONE")
    /\ UNCHANGED <<sessionVars, rev, apiKey, structured_data, transcripts, caller, rulesResults,
                   extractedData, remainingSchema, llmCalls, llmThrew, response,
                   formData, validationResult, voiceOut, mergeOut, coerceIn, edits>>

\* handler, Step 4
Merge ==
    /\ caller = "handler" /\ phase \in {"LLM_DONE", "LLM_SKIPPED"}
    /\ extractedData' = MergeLLM(rev, extractedData, remainingSchema, llmResults)
    /\ phase' = "MERGED"
    /\ UNCHANGED <<sessionVars, rev, apiKey, structured_data, transcripts, caller, rulesResults,
                   remainingSchema, llmResults, llmCalls, llmThrew, llmOutcome, response,
                   formData, validationResult, voiceOut, mergeOut, coerceIn, edits>>

\* handler, Step 5 and res.status(200).json(extractedData)
Respond ==
    /\ caller = "handler" /\ phase = "MERGED"
    /\ extractedData' = FinalCleanup(rev, extractedData)
    /\ response' = [status |-> 200, body |-> extractedData']
    /\ phase' = "RESPONDED"
    /\ UNCHANGED <<sessionVars, rev, apiKey, structured_data, transcripts, caller, rulesResults,
                   remainingSchema, llmResults, llmCalls, llmThrew, llmOutcome,
                   formData, validationResult, voiceOut, mergeOut, coerceIn, edits>>

\* client: the answer becomes the form data and is validated
ClientValidate ==
    /\ caller = "handler" /\ phase = "RESPONDED"
    /\ formData' = ClientFormData(rev, response)
    /\ validationResult' = validateForm(rev, formData')
    /\ phase' = "VALIDATED"
    /\ UNCHANGED <<sessionVars, rev, apiKey, structured_data, transcripts, caller, rulesResults,
                   extractedData, remainingSchema, llmResults, llmCalls, llmThrew,
                   llmOutcome, response, voiceOut, mergeOut, coerceIn, edits>>

Next ==
    \/ RunRules
    \/ ComputeGap
    \/ LLMSkip
    \/ LLMNoCredential
    \/ LLMConstructFails
    \/ LLMSend
    \/ LLMReturn
    \/ Merge
    \/ Respond
    \/ ClientValidate

Spec == Init /\ [][Next]_vars

----------------------------------------------------------------------------
(* The form under edit: handleInputChange and the validators *)

\* most input changes made to one form
MaxEdits == 2

\* values that pass the validators of every revision holding the key
GoodValues ==
    [policy_eff_date |-> Str(<<"2", "0", "2", "5", "-", "0", "4", "-", "0", "1">>),
     policy_exp_date |-> Str(<<"2", "0", "2", "6", "-", "0", "4", "-", "0", "1">>),
     legal_name |-> Str(<<"A", "c", "m", "e", " ", "L", "L", "C">>),
     applicant_address |-> Str(<<"1", " ", "M", "a", "i", "n", " ", "S", "t", ",", " ", "T", "o", "w", "n", ",", " ", "G", "A">>),
     business_phone |-> Str(<<"5", "5", "5", "-", "1", "2", "3", "4">>),
     applicant_entity_type |-> Str(<<"L", "L", "C">>),
     fein |-> Str(<<"1", "2", "-", "3", "4", "5", "6", "7", "8", "9">>),
     contact_name |-> Str(<<"A", "l">>),
     contact_email |-> Str(<<"a", "@", "b", ".", "c", "o">>),
     contact_phone |-> Str(<<"5", "5", "5", "-", "1", "2", "3", "4">>),
     premise_address |-> Str(<<"9", " ", "O", "a", "k", " ", "A", "v", "e", ",", " ", "C", "i", "t", "y", ",", " ", "T", "X">>),
     city_limits |-> Str(<<"I", "n", "s", "i", "d", "e">>),
     annual_revenue |-> Num(500000),
     nature_of_business |-> Str(<<"R", "e", "t", "a", "i", "l">>),
     business_description |-> Str(<<"S", "e", "l", "l", "s", " ", "t", "h", "i", "n", "g", "s">>),
     address |-> Str(<<"1", " ", "M", "a", "i", "n", " ", "S", "t">>)]

\* a saved form as handleCompanySelect loads it
LoadedForm(r) ==
    ClientFormData(r, [status |-> 200,
                       body |-> [key \in (DOMAIN GoodValues) \cap SchemaKeys(r) |-> GoodValues[key]]])

\* the form data an editing session starts from: useState({}) or a loaded form
StartForms(r) == {EmptyObj, LoadedForm(r)}

\* <<fieldName, value>> choices of handleInputChange
EditPairs ==
    {<<"legal_name", Str(<<>>)>>,
     <<"legal_name", Str(<<" ", " ", " ">>)>>,
     <<"legal_name", Str(<<"B", "o", "b", " ", "I", "n", "c">>)>>,
     <<"fein", Str(<<>>)>>,
     <<"fein", Str(<<"1", "2", "3">>)>>,
     <<"agency_name", Str(<<>>)>>,
     <<"agency_phone", Null>>,
     <<"agency_email", Str(<<"n", "o", "p", "e">>)>>,
     <<"annual_revenue", Num(-10)>>,
     <<"annual_revenue", Null>>,
     <<"sic", Num(12340)>>,
     <<"sic", Str(<<"1", "2">>)>>,
     <<"contact_email", Str(<<"n", "o", "p", "e">>)>>,
     <<"city_limits", Str(<<>>)>>,
     <<"applicant_entity_type", Str(<<"l", "l", "c">>)>>,
     <<"has_employees", Bool(TRUE)>>,
     <<"num_vehicles", Num(15)>>,
     <<"address", Str(<<"x">>)>>}

\* the validators a revision runs on form data
Validators(r) ==
    IF r = "legacy" THEN {"validateFormData"} ELSE {"validateAcord125Data", "validateFormData"}

\* the validator named by which, applied to data
RunValidator(which, r, data) ==
    IF which = "validateAcord125Data" THEN validateAcord125Data(r, data) ELSE validateFormData(r, data)

InitForm ==
    /\ rev \in Revs
    /\ apiKey = FALSE
    /\ structured_data = NoStructuredData
    /\ transcripts = NoTranscripts
    /\ caller \in Validators(rev)
    /\ phase = "FORM"
    /\ remainingSchema = {}
    /\ RunIdle
    /\ formData \in StartForms(rev)
    /\ validationResult = NotValidated
    /\ CoerceIdle
    /\ edits = 0
    /\ SessionIdle

\* handleInputChange(fieldName, value): copy, update, validate the updated data;
\* a validator that throws leaves the form data as it was
HandleInputChange ==
    /\ phase \in {"FORM", "EDITED"}
    /\ edits < MaxEdits
    /\ \E pair \in {p \in EditPairs : p[1] \in SchemaKeys(rev)} :
       \E res \in {RunValidator(caller, rev, Put(formData, pair[1], pair[2]))} :
          /\ validationResult' = res
          /\ formData' = IF res.threw THEN formData ELSE Put(formData, pair[1], pair[2])
    /\ edits' = edits + 1
    /\ phase' = "EDITED"
    /\ UNCHANGED <<sessionVars, rev, apiKey, structured_data, transcripts, caller, rulesResults,
                   extractedData, remainingSchema, llmResults, llmCalls, llmThrew,
                   llmOutcome, response, voiceOut, mergeOut, coerceIn>>

NextForm == HandleInputChange

SpecValidate == InitForm /\ [][NextForm]_vars

----------------------------------------------------------------------------
(* One raw value through both coercion gates *)

\* raw values a caller hands to a coercion
RawValues ==
    {Str(<<"5", "0", "k">>), Str(<<"1", ".", "2", "m">>), Str(<<"$", "1", ",", "2", "0", "0">>), Str(<<"t", "w", "o">>), Str(<<"a", "b", "c">>),
     Str(<<" ", "1", "2", " ">>), Str(<<"1", ".", "5">>), Str(<<"-", "5">>), Str(<<"y", "e", "s">>), Str(<<"N", "o">>),
     Str(<<"m", "a", "y", "b", "e">>), Str(<<" ", "L", "L", "C", " ">>), Str(<<>>),
     Str(<<"1", ".", "2", "k">>), Str(<<"1", "2", "a", "b", "c">>), Str(<<"3", " ", "c", "a", "r", "s">>),
     Str(<<"T", "E", "N">>), Num(120)}

\* fields of every type the revisions declare
CoerceFields ==
    {"annual_revenue", "num_vehicles", "has_employees", "legal_name", "contact_email",
     "policy_eff_date", "applicant_entity_type", "business_description"}

InitCoerce ==
    /\ rev \in Revs
    /\ apiKey = FALSE
    /\ structured_data = NoStructuredData
    /\ transcripts = NoTranscripts
    /\ caller = "coercion"
    /\ phase = "RAW"
    /\ remainingSchema = {}
    /\ RunIdle
    /\ formData = EmptyObj
    /\ validationResult = NotValidated
    /\ coerceIn \in [field : CoerceFields \cap SchemaKeys(rev), raw : RawValues]
    /\ voiceOut = CoercionFailed
    /\ mergeOut = CoercionFailed
    /\ edits = 0
    /\ SessionIdle

\* process-voice: the updateFormField call coerces the value
VoicePath ==
    /\ phase \in {"RAW", "MERGE_COERCED"}
    /\ voiceOut' = VoiceCoerce(rev, coerceIn.field, coerceIn.raw)
    /\ phase' = IF phase = "RAW" THEN "VOICE_COERCED" ELSE "BOTH_COERCED"
    /\ UNCHANGED <<sessionVars, rev, apiKey, structured_data, transcripts, caller, rulesResults,
                   extractedData, remainingSchema, llmResults, llmCalls, llmThrew,
                   llmOutcome, response, formData, validationResult, mergeOut, coerceIn, edits>>

\* extraction handler: Step 4 coerces the candidate
MergePath ==
    /\ phase \in {"RAW", "VOICE_COERCED"}
    /\ mergeOut' = MergeCoerce(rev, coerceIn.field, coerceIn.raw)
    /\ phase' = IF phase = "RAW" THEN "MERGE_COERCED" ELSE "BOTH_COERCED"
    /\ UNCHANGED <<sessionVars, rev, apiKey, structured_data, transcripts, caller, rulesResults,
                   extractedData, remainingSchema, llmResults, llmCalls, llmThrew,
                   llmOutcome, response, formData, validationResult, voiceOut, coerceIn, edits>>

\* earlier extraction handler: the candidate is merged and the final cleanup runs
CleanupPath ==
    /\ caller = "coercion" /\ phase = "BOTH_COERCED"
    /\ extractedData' = EarlierExtract(rev, coerceIn.field, coerceIn.raw)
    /\ response' = [status |-> 200, body |-> extractedData']
    /\ phase' = "CLEANED"
    /\ UNCHANGED <<sessionVars, rev, apiKey, structured_data, transcripts, caller, rulesResults,
                   remainingSchema, llmResults, llmCalls, llmThrew, llmOutcome,
                   formData, validationResult, voiceOut, mergeOut, coerceIn, edits>>

NextCoerce == VoicePath \/ MergePath \/ CleanupPath

SpecCoerce == InitCoerce /\ [][NextCoerce]_vars

----------------------------------------------------------------------------
(* Properties of an extraction run *)

\* the field map after the rule stage: extractedData as Step 2 reads it
AfterRules == MergeRules(rev, InitExtracted(rev), rulesResults)

\* the handler has answered with the merged field map
Answered == caller = "handler" /\ phase \in {"RESPONDED", "VALIDATED"} /\ response.status = 200

\* the default Step 5 leaves in a field no extractor filled
Unfilled(key) == IF formSchema(rev)[key].type = "checkbox" THEN Bool(FALSE) ELSE Null

\* candidates for remaining fields that fail coercion or the field's validator
FailingCandidates ==
    {key \in (DOMAIN llmResults) \cap remainingSchema :
        LET c == MergeCoerce(rev, key, llmResults[key]) IN
        ~c.ok \/ validationThrows(rev, key, c.v) \/ ~validation(rev, key, c.v)}

\* the candidate map of the run in which the model omitted the failing keys
WithoutFailing == [key \in (DOMAIN llmResults) \ FailingCandidates |-> llmResults[key]]

\* C1: once the merge has run, every schema key outside remainingSchema holds the
\* value it had after the rule stage, in extractedData and in the answered field
\* map, and a key the model invented is not added: the merge writes only keys of
\* remainingSchema.
C1_MergeWritesOnlyRemaining ==
    (caller = "handler" /\ (phase = "MERGED" \/ Answered)) =>
        /\ \A key \in SchemaKeys(rev) \ remainingSchema :
              /\ key \in DOMAIN rulesResults
              /\ extractedData[key] = rulesResults[key]
              /\ Answered => response.body[key] = rulesResults[key]
        /\ DOMAIN extractedData = SchemaKeys(rev)

\* C1 witness: the rules took fein "12-3456789" from a transcript, the model
\* answered fein "99-9999999", and the answered map holds the rule value.
C1_Witness ==
    /\ Answered
    /\ "fein" \in DOMAIN rulesResults
    /\ "fein" \in DOMAIN llmResults
    /\ llmResults["fein"] = Str(<<"9", "9", "-", "9", "9", "9", "9", "9", "9", "9">>)
    /\ response.body["fein"] = Str(<<"1", "2", "-", "3", "4", "5", "6", "7", "8", "9">>)

\* C2: a candidate for a remaining field that fails coercion or validation is not
\* written (the field keeps its value from before the merge), and the answered
\* field map, the client's form data and the validation report equal those of the
\* run in which the model omitted that key.
C2_ConfidenceGating ==
    (Answered /\ phase = "VALIDATED") =>
        LET omitted == FinalCleanup(rev, MergeLLM(rev, AfterRules, remainingSchema, WithoutFailing)) IN
        /\ \A key \in FailingCandidates :
              response.body[key] = CleanValue(formSchema(rev)[key].type, AfterRules[key])
        /\ response.body = omitted
        /\ formData = ClientFormData(rev, [status |-> 200, body |-> omitted])
        /\ validationResult = validateForm(rev, ClientFormData(rev, [status |-> 200, body |-> omitted]))

\* C2 witness: a validated run whose candidate map held a failing candidate.
C2_Witness ==
    /\ Answered /\ phase = "VALIDATED"
    /\ FailingCandidates /= {}

\* C3: every field map the handler answers with, 200 or 500, has exactly the schema
\* keys, and a key neither the rules nor an accepted candidate filled holds null,
\* or false for a checkbox.
C3_SchemaComplete ==
    (caller = "handler" /\ phase \in {"RESPONDED", "VALIDATED"}) =>
        /\ DOMAIN response.body = SchemaKeys(rev)
        /\ \A key \in SchemaKeys(rev) :
              (\/ response.status = 500
               \/ /\ key \notin DOMAIN rulesResults
                  /\ key \notin ((DOMAIN llmResults) \cap remainingSchema) \ FailingCandidates)
                 => response.body[key] = Unfilled(key)

\* C3 witness: a 200 answer of the revision with a checkbox, the checkbox false,
\* one field filled and one null.
C3_Witness ==
    /\ Answered
    /\ rev = "legacy"
    /\ response.body["has_employees"] = Bool(FALSE)
    /\ response.body["legal_name"] = Str(<<"A", "c", "m", "e", " ", "L", "L", "C">>)
    /\ response.body["fein"] = Null

\* C4 (as claimed): with raw source {legal_name: "Acme LLC", fein: "12-3456789"},
\* no transcripts and an empty candidate map, the answered map holds both values,
\* every other required field is null, isValid is false and every other required
\* field is reported "<Label> is required".
C4_EndToEndScenario ==
    (/\ Answered /\ phase = "VALIDATED"
     /\ rev = "acord"
     /\ structured_data = ScenarioSource
     /\ transcripts = NoTranscripts
     /\ llmResults = EmptyObj) =>
        /\ response.body["legal_name"] = Str(<<"A", "c", "m", "e", " ", "L", "L", "C">>)
        /\ response.body["fein"] = Str(<<"1", "2", "-", "3", "4", "5", "6", "7", "8", "9">>)
        /\ ~validationResult.isValid
        /\ \A key \in SchemaKeys(rev) \ {"legal_name", "fein"} :
              formSchema(rev)[key].required =>
                 /\ response.body[key] = Null
                 /\ key \in DOMAIN validationResult.errors
                 /\ validationResult.errors[key] = formSchema(rev)[key].label \o " is required"

\* C5: the model is called at most once; while the call is outstanding nothing has
\* been merged; after the LLM stage no call is outstanding; and a run whose
\* remaining schema is empty makes no call and has an empty candidate map.
C5_AtMostOneCall ==
    /\ llmCalls <= 1
    /\ llmOutcome = "pending" <=> phase = "LLM_WAIT"
    /\ (caller = "handler" /\ phase = "LLM_WAIT") => extractedData = AfterRules
    /\ (phase \in {"LLM_DONE", "LLM_SKIPPED", "MERGED", "RETURNED"}) =>
          /\ llmOutcome \notin {"none", "pending"}
          /\ llmCalls = IF llmOutcome \in FailureOutcomes \cup {"args"} THEN 1 ELSE 0
    /\ (remainingSchema = {}) => (llmCalls = 0 /\ llmResults = EmptyObj)

\* C5 witness: a handler run merged the candidates of its single, completed call.
C5_Witness ==
    /\ caller = "handler" /\ phase = "MERGED"
    /\ llmCalls = 1
    /\ llmOutcome = "args"
    /\ llmResults /= EmptyObj

\* C6 (as claimed): whenever the model stage fails with a credential present,
\* extractWithLLM returns an empty map and lets no exception reach its caller.
C6_FailuresReturnEmpty ==
    (apiKey /\ llmOutcome \in FailureOutcomes \cup {"construct_failed"}) =>
        /\ llmResults = EmptyObj
        /\ ~llmThrew

\* C7: without a credential extractWithLLM makes no call, raises nothing and returns
\* an empty map; the run answers 200, every required field the rules left in the
\* remaining schema is null in the answered map, and isValid is false.
C7_NoCredential ==
    /\ ~apiKey => (llmCalls = 0 /\ ~llmThrew /\ llmResults = EmptyObj)
    /\ llmOutcome = "no_credential" => ~apiKey
    /\ (~apiKey /\ caller = "handler" /\ phase = "VALIDATED" /\ llmOutcome /= "none") =>
          /\ llmOutcome = "no_credential"
          /\ response.status = 200
          /\ \A key \in remainingSchema :
                formSchema(rev)[key].required => response.body[key] = Null
          /\ ~validationResult.threw
          /\ ~validationResult.isValid

\* C7 witness: a validated run without credential that left a required field unfilled.
C7_Witness ==
    /\ ~apiKey /\ caller = "handler" /\ phase = "VALIDATED"
    /\ llmOutcome = "no_credential"
    /\ \E key \in remainingSchema : formSchema(rev)[key].required /\ response.body[key] = Null
    /\ "legal_name" \notin remainingSchema

\* C8: once Step 2 has run, remainingSchema holds exactly the schema keys whose
\* value in the rule-stage result is absent, null or the empty string; a key
\* holding 0 or false is not in it.
C8_GapAnalysis ==
    (caller = "handler"
     /\ (phase \in {"GAP_COMPUTED", "LLM_WAIT", "LLM_DONE", "LLM_SKIPPED", "MERGED"}
         \/ llmOutcome /= "none")) =>
        remainingSchema =
            {key \in SchemaKeys(rev) :
                \/ key \notin DOMAIN rulesResults
                \/ rulesResults[key] \in {Null, Undef, Str(<<>>)}}

\* C8 witness: the rules stored annual_revenue 0 and the field is not remaining,
\* while an unfilled field is.
C8_Witness ==
    /\ caller = "handler" /\ phase = "GAP_COMPUTED"
    /\ "annual_revenue" \in DOMAIN rulesResults
    /\ rulesResults["annual_revenue"] = Num(0)
    /\ "annual_revenue" \notin remainingSchema
    /\ "legal_name" \in remainingSchema

----------------------------------------------------------------------------
(* Properties of the validators and of the coercion gates *)

\* the value of key in data is neither null, undefined nor the empty string
NonEmpty(data, key) == key \in DOMAIN data /\ data[key] \notin {Null, Undef, Str(<<>>)}

RequiredKeys(r) == {key \in SchemaKeys(r) : formSchema(r)[key].required}

\* the required fields a validator lets pass when empty
ExemptKeys == IF rev = "agency" /\ caller = "validateAcord125Data" THEN AgencyKeys ELSE {}

\* C9 (as claimed): after a validation that returned, isValid is true iff the
\* report is empty and every required field of the form data is non-empty.
C9_ValidIffEveryRequired ==
    (phase = "EDITED" /\ ~validationResult.threw) =>
        (validationResult.isValid <=>
            /\ DOMAIN validationResult.errors = {}
            /\ \A key \in RequiredKeys(rev) : NonEmpty(formData, key))

\* C9 (amended): after a validation that returned, isValid is true iff the report
\* is empty and every required field is non-empty, the agency_ fields excepted
\* under validateAcord125Data of the agency revision.
C9_ValidIffRequiredButAgency ==
    (phase = "EDITED" /\ ~validationResult.threw) =>
        /\ validationResult.isValid <=> DOMAIN validationResult.errors = {}
        /\ validationResult.isValid <=>
              /\ DOMAIN validationResult.errors = {}
              /\ \A key \in RequiredKeys(rev) \ ExemptKeys : NonEmpty(formData, key)

\* C9 witness: the agency revision's validateAcord125Data finds a form valid whose
\* required agency_name was cleared.
C9_Witness ==
    /\ phase = "EDITED" /\ ~validationResult.threw
    /\ rev = "agency" /\ caller = "validateAcord125Data"
    /\ validationResult.isValid
    /\ formData["agency_name"] = Str(<<>>)
    /\ formSchema(rev)["agency_name"].required

\* C10 (as claimed): a raw string given to the voice-command coercion and to the
\* merge coercion of the same field has the same outcome on both.
C10_SameGate ==
    phase = "BOTH_COERCED" => voiceOut = mergeOut

----------------------------------------------------------------------------
(* An editing session: input changes, voice commands, saves, Finalize *)

\* most input changes and voice commands of one session
MaxChanges == 2

\* faulty variant of handleInputChange: the new map holds the edited field only
handleInputChangeReplace(r, prevData, fieldName, value) ==
    LET updatedData == Put(EmptyObj, fieldName, value)
        res == validateForm(r, updatedData)
    IN [formData |-> IF res.threw THEN prevData ELSE updatedData, validationResult |-> res]

\* validateForm of the client, as handleInputChange applies it to the updated copy
handleInputChange(r, prevData, fieldName, value) ==
    LET updatedData == Put(prevData, fieldName, value)
        res == validateForm(r, updatedData)
    IN [formData |-> IF res.threw THEN prevData ELSE updatedData, validationResult |-> res]

\* what the model answered to the transcript: a function call, text only, or an error
VoiceCalls ==
    {[kind |-> "call", name |-> "updateFormField", fieldName |-> "legal_name", value |-> Str(<<" ", "B", "o", "b", " ", "I", "n", "c", " ">>)],
     [kind |-> "call", name |-> "updateFormField", fieldName |-> "legal_name", value |-> Str(<<" ", " ", " ">>)],
     [kind |-> "call", name |-> "updateFormField", fieldName |-> "annual_revenue", value |-> Str(<<"$", "1", ",", "2", "0", "0">>)],
     [kind |-> "call", name |-> "updateFormField", fieldName |-> "annual_revenue", value |-> Str(<<"a", "b", "c">>)],
     [kind |-> "call", name |-> "updateFormField", fieldName |-> "invented_field", value |-> Str(<<"x">>)],
     [kind |-> "call", name |-> "updateFormField", fieldName |-> "", value |-> Undef],
     [kind |-> "call", name |-> "clearFormField", fieldName |-> "legal_name", value |-> Undef],
     [kind |-> "call", name |-> "clearFormField", fieldName |-> "invented_field", value |-> Undef],
     [kind |-> "call", name |-> "reportAmbiguityOrIrrelevance", fieldName |-> "", value |-> Undef],
     [kind |-> "call", name |-> "deleteEverything", fieldName |-> "legal_name", value |-> Str(<<"x">>)],
     [kind |-> "text", name |-> "", fieldName |-> "", value |-> Undef],
     [kind |-> "error", name |-> "", fieldName |-> "", value |-> Undef]}

Command(intent, field, value) ==
    [intent |-> intent, field |-> field, value |-> value, handled |-> FALSE, company |-> ""]

\* case "updateFormField" of parseTranscriptWithFunctionCalling
updateFormField(r, fieldName, value) ==
    IF fieldName = "" \/ fieldName \notin SchemaKeys(r) THEN Command("AMBIGUOUS", "", Null)
    ELSE LET coerced == VoiceCoerce(r, fieldName, value) IN
         IF ~coerced.ok THEN Command("AMBIGUOUS", fieldName, value)
         ELSE IF validationThrows(r, fieldName, coerced.v) THEN Command("AMBIGUOUS", fieldName, value)
         ELSE IF ~validation(r, fieldName, coerced.v) THEN Command("AMBIGUOUS", fieldName, value)
         ELSE Command("UPDATE", fieldName, coerced.v)

\* case "clearFormField": mapped to UPDATE with null, without validation
clearFormField(r, fieldName) ==
    IF fieldName = "" \/ fieldName \notin SchemaKeys(r) THEN Command("AMBIGUOUS", "", Null)
    ELSE Command("UPDATE", fieldName, Null)

\* parseTranscriptWithFunctionCalling, from the model's answer on
parseTranscriptWithFunctionCalling(r, fc) ==
    CASE fc.kind = "error" -> Command("OTHER", "", Null)
      [] fc.kind = "text" -> Command("AMBIGUOUS", "", Null)
      [] fc.name = "updateFormField" -> updateFormField(r, fc.fieldName, fc.value)
      [] fc.name = "clearFormField" -> clearFormField(r, fc.fieldName)
      [] fc.name = "reportAmbiguityOrIrrelevance" -> Command("AMBIGUOUS", "", Null)
      [] OTHER -> Command("OTHER", "", Null)

\* faulty variant of AppliesCommand: every command naming a schema field is applied
AppliesAnyIntent(r, cmd) == cmd.field \in SchemaKeys(r)

\* handleVoiceCommand: the command reaches handleInputChange
AppliesCommand(r, cmd) == cmd.intent = "UPDATE" /\ cmd.field \in SchemaKeys(r)

\* the signed-in user of the session and another user of the same server
SessionUser == "u1"

OtherUser == "u2"

\* faulty variant of saveForm: the formData is stored whatever the validation said
saveFormUnvalidated(db, user, req, r) ==
    IF req.companyId = "" \/ ~req.hasFormData THEN [status |-> 400, db |-> db]
    ELSE [status |-> 200, db |-> Put(db, <<user, req.companyId>>, req.formData)]

\* save-form handler: reject a request without companyId or formData, validate the
\* completed copy, then store the formData as it was received
saveForm(db, user, req, r) ==
    IF req.companyId = "" \/ ~req.hasFormData THEN [status |-> 400, db |-> db]
    ELSE LET res == validateFormData(r, CompleteData(r, req.formData)) IN
         IF res.threw THEN [status |-> 500, db |-> db]
         ELSE IF ~res.isValid THEN [status |-> 400, db |-> db]
         ELSE [status |-> 200, db |-> Put(db, <<user, req.companyId>>, req.formData)]

\* a form that the extraction could fill nothing of
BlankForm(r) == ClientFormData(r, [status |-> 500, body |-> EmptyObj])

\* the forms handleCompanySelect leaves a session with
SessionStarts(r) == {LoadedForm(r), BlankForm(r)}

\* <<fieldName, value>> choices of handleInputChange in a session
SessionEdits ==
    {<<"legal_name", Str(<<>>)>>,
     <<"annual_revenue", Num(-10)>>}

\* save-form requests of another client
OtherSaveRequests(r) ==
    {[companyId |-> "c2", hasFormData |-> TRUE, formData |-> LoadedForm(r)],
     [companyId |-> "c2", hasFormData |-> TRUE, formData |-> BlankForm(r)],
     [companyId |-> "", hasFormData |-> TRUE, formData |-> LoadedForm(r)],
     [companyId |-> "c1", hasFormData |-> FALSE, formData |-> EmptyObj]}

\* isFormValid of the client
isFormValid == validationResult.isValid /\ ~validationResult.threw

InitSession ==
    /\ rev \in Revs
    /\ apiKey = FALSE
    /\ structured_data = NoStructuredData
    /\ transcripts = NoTranscripts
    /\ caller = "session"
    /\ phase = "EDITING"
    /\ remainingSchema = {}
    /\ RunIdle
    /\ formData \in SessionStarts(rev)
    /\ validationResult = validateForm(rev, formData)
    /\ CoerceIdle
    /\ edits = 0
    /\ selectedCompanyId = "c1"
    /\ mockDatabase = EmptyObj
    /\ command = NoCommand
    /\ isSaving = FALSE
    /\ saveRequest = NoSave
    /\ pdfRequest = EmptyObj
    /\ runs = NoRuns
    /\ SelectionIdle

\* the user changes an input of the form
SessionInputChange ==
    /\ edits < MaxChanges
    /\ \E pair \in {p \in SessionEdits : p[1] \in SchemaKeys(rev)} :
       \E out \in {handleInputChange(rev, formData, pair[1], pair[2])} :
          /\ formData' = out.formData
          /\ validationResult' = out.validationResult
    /\ edits' = edits + 1
    /\ UNCHANGED <<rev, apiKey, structured_data, transcripts, caller, phase, rulesResults,
                   extractedData, remainingSchema, llmResults, llmCalls, llmThrew,
                   llmOutcome, response, voiceOut, mergeOut, coerceIn, sessionVars>>

\* process-voice answers the recording with a command
ProcessVoice ==
    /\ edits < MaxChanges
    /\ command.handled
    /\ \E fc \in VoiceCalls :
          command' = [parseTranscriptWithFunctionCalling(rev, fc)
                         EXCEPT !.company = selectedCompanyId]
    /\ edits' = edits + 1
    /\ UNCHANGED <<rev, apiKey, structured_data, transcripts, caller, phase, rulesResults,
                   extractedData, remainingSchema, llmResults, llmCalls, llmThrew,
                   llmOutcome, response, formData, validationResult, voiceOut, mergeOut,
                   coerceIn, runs, selectionVars, selectedCompanyId, mockDatabase, isSaving, saveRequest,
                   pdfRequest>>

\* handleVoiceCommand(command)
HandleVoiceCommand ==
    /\ ~command.handled
    /\ command' = [command EXCEPT !.handled = TRUE]
    /\ IF AppliesCommand(rev, command)
       THEN \E out \in {handleInputChange(rev, formData, command.field, command.value)} :
               /\ formData' = out.formData
               /\ validationResult' = out.validationResult
       ELSE UNCHANGED <<formData, validationResult>>
    /\ UNCHANGED <<rev, apiKey, structured_data, transcripts, caller, phase, rulesResults,
                   extractedData, remainingSchema, llmResults, llmCalls, llmThrew,
                   llmOutcome, response, voiceOut, mergeOut, coerceIn, runs, selectionVars, edits,
                   selectedCompanyId, mockDatabase, isSaving, saveRequest,
                   pdfRequest>>

\* handleSaveForm up to its await: the request it posts
SaveRequestOf(isAutoSave, finalize) ==
    [companyId |-> selectedCompanyId, formData |-> formData, isAutoSave |-> isAutoSave,
     finalize |-> finalize, status |-> 0, stage |-> "sent"]

\* handleSaveForm returns at once: no company, empty form data, or a save in progress
SaveSkipped == selectedCompanyId = "" \/ formData = EmptyObj \/ isSaving

\* the auto-save timer expires and calls handleSaveForm(true)
AutoSaveFires ==
    /\ selectedCompanyId /= "" /\ formData /= EmptyObj /\ ~isSaving
    /\ ~SaveSkipped
    /\ isSaving' = TRUE
    /\ saveRequest' = SaveRequestOf(TRUE, FALSE)
    /\ UNCHANGED <<rev, apiKey, structured_data, transcripts, caller, phase, rulesResults,
                   extractedData, remainingSchema, llmResults, llmCalls, llmThrew,
                   llmOutcome, response, formData, validationResult, voiceOut, mergeOut,
                   coerceIn, runs, selectionVars, edits, selectedCompanyId, mockDatabase, command,
                   pdfRequest>>

\* the save-form handler answers the request of the session
SaveFormHandler ==
    /\ saveRequest.stage = "sent"
    /\ \E req \in {[companyId |-> saveRequest.companyId, hasFormData |-> TRUE,
                    formData |-> saveRequest.formData]} :
       \E out \in {saveForm(mockDatabase, SessionUser, req, rev)} :
          /\ mockDatabase' = out.db
          /\ saveRequest' = [saveRequest EXCEPT !.status = out.status, !.stage = "answered"]
    /\ UNCHANGED <<rev, apiKey, structured_data, transcripts, caller, phase, rulesResults,
                   extractedData, remainingSchema, llmResults, llmCalls, llmThrew,
                   llmOutcome, response, formData, validationResult, voiceOut, mergeOut,
                   coerceIn, runs, selectionVars, edits, selectedCompanyId, command, isSaving,
                   pdfRequest>>

\* the save-form handler answers a request of another client (until one is stored)
OtherClientSaves ==
    /\ <<OtherUser, "c2">> \notin DOMAIN mockDatabase
    /\ \E req \in OtherSaveRequests(rev) :
          mockDatabase' = saveForm(mockDatabase, OtherUser, req, rev).db
    /\ UNCHANGED <<rev, apiKey, structured_data, transcripts, caller, phase, rulesResults,
                   extractedData, remainingSchema, llmResults, llmCalls, llmThrew,
                   llmOutcome, response, formData, validationResult, voiceOut, mergeOut,
                   coerceIn, runs, selectionVars, edits, selectedCompanyId, command, isSaving, saveRequest,
                   pdfRequest>>

\* faulty variant of PdfBody: the request carries the form data of the latest render
PdfBodyLatest(req) == formData

\* the formData that handleFinalizeAndGenerate stringifies after the save: the one
\* of the render the click was made in
PdfBody(req) == req.formData

\* handleSaveForm resumes after its await; handleFinalizeAndGenerate then sends the
\* form data it validated to /api/generate-pdf
SaveReturns ==
    /\ saveRequest.stage = "answered"
    /\ saveRequest' = [saveRequest EXCEPT !.stage = "done"]
    /\ isSaving' = FALSE
    /\ IF saveRequest.finalize
       THEN pdfRequest' = PdfBody(saveRequest)
       ELSE UNCHANGED pdfRequest
    /\ UNCHANGED <<rev, apiKey, structured_data, transcripts, caller, phase, rulesResults,
                   extractedData, remainingSchema, llmResults, llmCalls, llmThrew,
                   llmOutcome, response, formData, validationResult, voiceOut, mergeOut,
                   coerceIn, runs, selectionVars, edits, selectedCompanyId, mockDatabase, command>>

\* handleFinalizeAndGenerate returns before saving: the form data is not valid
FinalizeRefuses(res) == res.threw \/ ~res.isValid

\* a click on Finalize: validate, save explicitly, then (after the save) send the request
HandleFinalizeAndGenerate ==
    /\ isFormValid /\ ~isSaving
    /\ \E res \in {validateForm(rev, formData)} :
          IF FinalizeRefuses(res)
          THEN /\ validationResult' = res
               /\ UNCHANGED <<isSaving, saveRequest, pdfRequest>>
          ELSE IF SaveSkipped
          THEN /\ pdfRequest' = formData
               /\ UNCHANGED <<validationResult, isSaving, saveRequest>>
          ELSE /\ isSaving' = TRUE
               /\ saveRequest' = SaveRequestOf(FALSE, TRUE)
               /\ UNCHANGED <<validationResult, pdfRequest>>
    /\ UNCHANGED <<rev, apiKey, structured_data, transcripts, caller, phase, rulesResults,
                   extractedData, remainingSchema, llmResults, llmCalls, llmThrew,
                   llmOutcome, response, formData, voiceOut, mergeOut,
                   coerceIn, runs, selectionVars, edits, selectedCompanyId, mockDatabase, command>>

NextSession ==
    \/ SessionInputChange
    \/ ProcessVoice
    \/ HandleVoiceCommand
    \/ AutoSaveFires
    \/ SaveFormHandler
    \/ OtherClientSaves
    \/ SaveReturns
    \/ HandleFinalizeAndGenerate

SpecSession == InitSession /\ [][NextSession]_vars

----------------------------------------------------------------------------
(* Properties of an editing session *)

\* value has the type the coercion of the field gives
Canonical(r, fieldName, value) ==
    LET type == formSchema(r)[fieldName].type IN
    value.k = (IF type = "number" THEN "number" ELSE IF type = "checkbox" THEN "boolean" ELSE "string")

\* this step is handleVoiceCommand changing the form data
VoiceChangesForm == ~command.handled /\ command'.handled /\ formData' /= formData

\* C11 as stated: a voice command changes the form data only when its intent is
\* UPDATE and its field is a key of the schema, and the value it writes has passed
\* the coercion and the validator of the field; every other command leaves the form
\* data unchanged.
C11_VoiceGate ==
    [][VoiceChangesForm =>
          /\ command.intent = "UPDATE"
          /\ command.field \in SchemaKeys(rev)
          /\ formData' = Put(formData, command.field, command.value)
          /\ Canonical(rev, command.field, command.value)
          /\ validation(rev, command.field, command.value)]_vars

\* C11 with the clear command: a voice command changes the form data only when its
\* intent is UPDATE and its field is a key of the schema, and the value it writes is
\* null (a cleared field, written without coercion or validation) or has passed the
\* coercion and the validator of the field; every other command leaves the form data
\* unchanged.
C11_VoiceGateOrClear ==
    [][VoiceChangesForm =>
          /\ command.intent = "UPDATE"
          /\ command.field \in SchemaKeys(rev)
          /\ formData' = Put(formData, command.field, command.value)
          /\ \/ command.value = Null
             \/ /\ Canonical(rev, command.field, command.value)
                /\ validation(rev, command.field, command.value)]_vars

\* an updateFormField command was applied: the trimmed, validated value is in the form
C11_Witness ==
    /\ command.handled
    /\ command.intent = "UPDATE"
    /\ command.field = "legal_name"
    /\ command.value = Str(<<"B", "o", "b", " ", "I", "n", "c">>)
    /\ formData["legal_name"] = Str(<<"B", "o", "b", " ", "I", "n", "c">>)

\* full-schema validation of the save-form handler passes data
PassesSaveValidation(data) ==
    LET res == validateFormData(rev, CompleteData(rev, data)) IN ~res.threw /\ res.isValid

\* this step is the save-form handler answering the request of the session
SaveAnswered == saveRequest.stage = "sent" /\ saveRequest'.stage = "answered"

\* C12: every field map in the persisted store (empty at first) passed full-schema
\* validation when it was saved; a save request whose form data fails validation is answered with 400
\* and leaves the store as it was, for that user and company and for every other entry.
C12_StoreHoldsValidated ==
    [][/\ mockDatabase' /= mockDatabase
             => \A entry \in DOMAIN mockDatabase' : PassesSaveValidation(mockDatabase'[entry])
       /\ SaveAnswered /\ ~PassesSaveValidation(saveRequest.formData)
             => saveRequest'.status = 400 /\ mockDatabase' = mockDatabase
       /\ SaveAnswered /\ PassesSaveValidation(saveRequest.formData)
             => /\ saveRequest'.status = 200
                /\ mockDatabase' = Put(mockDatabase, <<SessionUser, saveRequest.companyId>>,
                                       saveRequest.formData)]_vars

\* a save of invalid form data was answered with 400 while the store holds an earlier
\* save of the same user and company and a save of another user
C12_Witness ==
    /\ saveRequest.stage = "done"
    /\ saveRequest.status = 400
    /\ <<OtherUser, "c2">> \in DOMAIN mockDatabase
    /\ <<SessionUser, "c1">> \in DOMAIN mockDatabase
    /\ mockDatabase[<<SessionUser, "c1">>] /= saveRequest.formData

\* validateAcord125Data / validateFormData of the client returns isValid true for data
PassesClientValidation(data) ==
    LET res == validateForm(rev, data) IN ~res.threw /\ res.isValid

C14_AutoSavePersists ==
    saveRequest.isAutoSave /\ saveRequest.stage \in {"answered", "done"}
        => /\ <<SessionUser, saveRequest.companyId>> \in DOMAIN mockDatabase
           /\ mockDatabase[<<SessionUser, saveRequest.companyId>>] = saveRequest.formData

----------------------------------------------------------------------------
(* Outcomes of an extraction request of any shape *)

\* the request body is not of the expected shape: structured_data is no object, or
\* unstructured_transcripts is no array or holds a null
Misshapen ==
    \/ ~structured_data.isObject
    \/ ~transcripts.isArray
    \/ \E i \in 1..Len(transcripts.items) : transcripts.items[i] = Null

\* C15: whatever the shape of the raw source and the transcripts, an extraction
\* request is answered (200 or 500) with a field map holding exactly the schema keys;
\* an exception of the rule stage or of the model stage never leaves the handler: it
\* is answered 500 with every field null, or false for a checkbox.
C15_NoFatalOutcome ==
    caller = "handler" =>
        /\ phase \in {"RESPONDED", "VALIDATED"} =>
              /\ response.status \in {200, 500}
              /\ DOMAIN response.body = SchemaKeys(rev)
              /\ response.status = 500 =>
                    \A key \in SchemaKeys(rev) : response.body[key] = Unfilled(key)
        /\ llmThrew => phase \in {"RESPONDED", "VALIDATED"} /\ response.status = 500
        /\ phase \notin {"RESPONDED", "VALIDATED"} => response = NoResponse /\ ~llmThrew

\* the rule stage threw on transcripts that are no array and the request was answered
\* with the all-null map
C15_Witness ==
    /\ caller = "handler"
    /\ phase = "RESPONDED"
    /\ Misshapen /\ ~transcripts.isArray
    /\ response.status = 500
    /\ response.body = errorResponse(rev)

----------------------------------------------------------------------------
(* Phases of an extraction run *)


\* the steps of the phase sequence START, RULES_DONE, GAP_COMPUTED, LLM_DONE or
\* LLM_SKIPPED, MERGED, VALIDATED; LLM_WAIT is the suspension inside the model stage
\* and RESPONDED the answer between the merge and the client's validation
PhaseSteps ==
    {<<"START", "RULES_DONE">>, <<"RULES_DONE", "GAP_COMPUTED">>,
     <<"GAP_COMPUTED", "LLM_WAIT">>, <<"GAP_COMPUTED", "LLM_DONE">>,
     <<"GAP_COMPUTED", "LLM_SKIPPED">>, <<"LLM_WAIT", "LLM_DONE">>,
     <<"LLM_DONE", "MERGED">>, <<"LLM_SKIPPED", "MERGED">>,
     <<"MERGED", "RESPONDED">>, <<"RESPONDED", "VALIDATED">>}

\* the catch block answers from the rule stage or from the model stage
CatchSteps == {<<"START", "RESPONDED">>, <<"GAP_COMPUTED", "RESPONDED">>}

\* a handler run takes a step of the phase sequence
AdvancePhase ==
    /\ caller = "handler"
    /\ \E step \in PhaseSteps \cup CatchSteps : phase = step[1] /\ phase' = step[2]

\* the handler runs its synchronous steps to completion and the awaited model call
\* settles (it returns or fails): a run does not stay for ever in a phase it can leave
SpecLive == Init /\ [][Next]_vars /\ WF_phase(AdvancePhase)

\* C16 as stated: every extraction run passes through START, RULES_DONE,
\* GAP_COMPUTED, LLM_DONE or LLM_SKIPPED, MERGED, VALIDATED, END in exactly this
\* order, skipping and re-entering none.
C16_AllPhasesInOrder ==
    [][caller = "handler" => <<phase, phase'>> \in PhaseSteps]_vars

\* The part of C16 that the handler keeps: a run moves through the phases only
\* forward and enters none twice (the catch block may take it from the rule stage or
\* the model stage straight to the answer), and every run that starts reaches its
\* end, the client having validated the answer, once the model call returns or fails.
C16_ForwardUntilEnd ==
    /\ [][caller = "handler" => <<phase, phase'>> \in PhaseSteps \cup CatchSteps]_vars
    /\ (caller = "handler") ~> (phase = "VALIDATED")

\* a run that went through the model call and the merge has reached its end
C16_Witness ==
    /\ caller = "handler"
    /\ phase = "VALIDATED"
    /\ llmCalls = 1
    /\ response.status = 200

----------------------------------------------------------------------------
(* Number coercion against its reference *)

\* cs as a whole is a decimal numeral: an optional sign, digits, an optional fraction
IsNumeral(cs) ==
    LET sgn == IF cs /= <<>> /\ Head(cs) \in {"-", "+"} THEN 1 ELSE 0
        u == SubSeq(cs, sgn + 1, Len(cs))
        ni == Span(u, Digit)
        rest == SubSeq(u, ni + 1, Len(u))
    IN IF rest = <<>> THEN ni > 0
       ELSE Head(rest) = "." /\ AllIn(Tail(rest), Digit) /\ (ni > 0 \/ Len(rest) > 1)

\* the reference of number coercion: the cleaned text, without the k or m that
\* scales it, has to be a numeral as a whole
NumberReference(value) ==
    IF value.k = "number" THEN value
    ELSE IF value.k = "string"
    THEN LET cleaned == Strip(numberWords(toLowerCase(trim(value.s))), {"$", ","} \cup WhiteSpace)
             scaled == Multiplier(value.s) /= 1 /\ cleaned /= <<>>
             body == IF scaled THEN SubSeq(cleaned, 1, Len(cleaned) - 1) ELSE cleaned
         IN IF IsNumeral(body) THEN Num(parseFloat(body).n * Multiplier(value.s)) ELSE Null
    ELSE Null

\* a number field whose coercion is parseNumeric alone has been coerced by Step 4
NumberCoerced ==
    /\ caller = "coercion"
    /\ phase \in {"MERGE_COERCED", "BOTH_COERCED", "CLEANED"}
    /\ formSchema(rev)[coerceIn.field].type = "number"
    /\ coerceIn.field /= "num_vehicles"

\* C17: number coercion equals the reference for every input: both copies of
\* parseNumeric return what the reference returns, and fail (null) on every string
\* whose remainder is not a number.
C17_NumberCoercionReference ==
    NumberCoerced =>
        /\ parseNumeric(coerceIn.raw) = NumberReference(coerceIn.raw)
        /\ mergeOut = IF NumberReference(coerceIn.raw) = Null
                      THEN CoercionFailed
                      ELSE Coerced(NumberReference(coerceIn.raw))

\* C17 on the inputs the reference accepts, and on text without a leading numeral
C17_ReferenceOnCleanInput ==
    (NumberCoerced /\ (NumberReference(coerceIn.raw) /= Null \/ parseNumeric(coerceIn.raw) = Null)) =>
        /\ parseNumeric(coerceIn.raw) = NumberReference(coerceIn.raw)
        /\ parseNumericApi(coerceIn.raw) = NumberReference(coerceIn.raw)

\* "1.2k" has been coerced to 1200
C17_Witness ==
    /\ NumberCoerced
    /\ coerceIn.raw = Str(<<"1", ".", "2", "k">>)
    /\ mergeOut = Coerced(Num(12000))

----------------------------------------------------------------------------
(* Checkbox coercion *)

\* what checkbox coercion has to give for a raw value
CheckboxReference(rawValue) ==
    LET lowerVal == trim(toLowerCase(String(rawValue))) IN
    IF lowerVal \in truthy THEN Coerced(Bool(TRUE))
    ELSE IF lowerVal \in falsy THEN Coerced(Bool(FALSE))
    ELSE CoercionFailed

\* a checkbox candidate has gone through the voice gate, Step 4 and the earlier
\* handler's cleanup
CheckboxCoerced ==
    /\ caller = "coercion"
    /\ phase = "CLEANED"
    /\ formSchema(rev)[coerceIn.field].type = "checkbox"

\* C18: checkbox coercion gives true for {true, yes, on, 1, affirmative, checked},
\* false for {false, no, off, 0, negative, unchecked}, and for every other input a
\* failure that rejects the field: wherever a candidate is coerced, an input outside
\* the two lists never ends as a boolean in the field map.
C18_CheckboxCoercion ==
    CheckboxCoerced =>
        /\ voiceOut = CheckboxReference(coerceIn.raw)
        /\ mergeOut = CheckboxReference(coerceIn.raw)
        /\ IF CheckboxReference(coerceIn.raw).ok
           THEN extractedData[coerceIn.field] = CheckboxReference(coerceIn.raw).v
           ELSE extractedData[coerceIn.field].k /= "boolean"

\* The part of C18 that holds: the voice gate and Step 4 coerce as stated.
C18_GatesCoerce ==
    CheckboxCoerced =>
        /\ voiceOut = CheckboxReference(coerceIn.raw)
        /\ mergeOut = CheckboxReference(coerceIn.raw)

\* "maybe" was rejected by both gates
C18_Witness ==
    /\ CheckboxCoerced
    /\ coerceIn.raw = Str(<<"m", "a", "y", "b", "e">>)
    /\ ~voiceOut.ok
    /\ ~mergeOut.ok

----------------------------------------------------------------------------
(* The rule extractor run twice on the same arguments *)

\* faulty variant of ArgumentsAfterRules: the extractor takes out of structuredData
\* what it has mapped
ArgumentsConsumed(args, results) ==
    <<[args[1] EXCEPT !.props = [key \in (DOMAIN args[1].props) \ (DOMAIN results) |->
                                    args[1].props[key]]],
      args[2], args[3]>>

\* <<structuredData, transcripts, schema>> after a call of extractWithRules: the
\* function assigns to its local results only and reads its arguments through get,
\* match and validation, none of which writes
ArgumentsAfterRules(args, results) == args

InitRules ==
    /\ rev \in Revs
    /\ apiKey = FALSE
    /\ \E req \in Requests : structured_data = req[1] /\ transcripts = req[2]
    /\ caller = "rules"
    /\ phase = "START"
    /\ remainingSchema = {}
    /\ RunIdle
    /\ formData = EmptyObj
    /\ validationResult = NotValidated
    /\ CoerceIdle
    /\ edits = 0
    /\ SessionIdle

\* extractWithRules(structured_data, transcripts, formSchema), first call; rulesResults
\* keeps its outcome, the partial map or the exception
RulesFirstRun ==
    /\ caller = "rules" /\ phase = "START"
    /\ \E rr \in {extractWithRules(structured_data, transcripts, rev)} :
       \E after \in {ArgumentsAfterRules(<<structured_data, transcripts, rev>>, rr.results)} :
          /\ rulesResults' = rr
          /\ structured_data' = after[1]
          /\ transcripts' = after[2]
          /\ rev' = after[3]
    /\ phase' = "RAN_ONCE"
    /\ UNCHANGED <<sessionVars, apiKey, caller, extractedData, remainingSchema, llmResults,
                   llmCalls, llmThrew, llmOutcome, response, formData, validationResult,
                   voiceOut, mergeOut, coerceIn, edits>>

\* the second call, on the arguments as the first call left them; extractedData
\* keeps its outcome
RulesSecondRun ==
    /\ caller = "rules" /\ phase = "RAN_ONCE"
    /\ \E rr \in {extractWithRules(structured_data, transcripts, rev)} :
       \E after \in {ArgumentsAfterRules(<<structured_data, transcripts, rev>>, rr.results)} :
          /\ extractedData' = rr
          /\ structured_data' = after[1]
          /\ transcripts' = after[2]
          /\ rev' = after[3]
    /\ phase' = "RAN_TWICE"
    /\ UNCHANGED <<sessionVars, apiKey, caller, rulesResults, remainingSchema, llmResults,
                   llmCalls, llmThrew, llmOutcome, response, formData, validationResult,
                   voiceOut, mergeOut, coerceIn, edits>>

NextRules == RulesFirstRun \/ RulesSecondRun

SpecRules == InitRules /\ [][NextRules]_vars

----------------------------------------------------------------------------
(* Two extraction requests served side by side *)

RunIds == {1, 2}

\* the request bodies of the two requests
ConcurrentRequests ==
    {<<ScenarioSource, NoTranscripts>>,
     <<NoStructuredData, JsArray(<<Str(<<"t", "a", "x", " ", "i", "d", " ", "9", "8", "-", "7", "6", "5", "4", "3", "2", "1", " ", "o", "k">>)>>)>>,
     <<NoStructuredData, [isArray |-> FALSE, items |-> <<>>]>>}

\* what the model call of a request settles with: a candidate map, or {} on failure
ConcurrentAnswers ==
    {EmptyObj,
     [legal_name |-> Str(<<"B", "o", "b", " ", "I", "n", "c">>), has_employees |-> Str(<<"y", "e", "s">>)]}

\* the handler's locals of a request that has just arrived
NewRun(req) ==
    [structured_data |-> req[1], transcripts |-> req[2], phase |-> "START",
     rulesResults |-> EmptyObj, extractedData |-> EmptyObj, remainingSchema |-> {},
     llmResults |-> EmptyObj, llmThrew |-> FALSE, response |-> NoResponse]

\* faulty variant of extractedDataOf: one extractedData at module level for all requests
extractedDataShared(rs, id) == rs[1].extractedData

\* const extractedData = {} is declared inside the handler: each request reads its own
extractedDataOf(rs, id) == rs[id].extractedData

InitConcurrent ==
    /\ rev \in Revs
    /\ apiKey \in BOOLEAN
    /\ structured_data = NoStructuredData
    /\ transcripts = NoTranscripts
    /\ caller = "concurrent"
    /\ phase = "SERVING"
    /\ remainingSchema = {}
    /\ RunIdle
    /\ formData = EmptyObj
    /\ validationResult = NotValidated
    /\ CoerceIdle
    /\ edits = 0
    /\ selectedCompanyId = ""
    /\ mockDatabase = EmptyObj
    /\ command = NoCommand
    /\ isSaving = FALSE
    /\ saveRequest = NoSave
    /\ pdfRequest = EmptyObj
    /\ runs \in [RunIds -> {NewRun(req) : req \in ConcurrentRequests}]
    /\ SelectionIdle

\* everything but the requests in flight
servingVars ==
    <<rev, apiKey, structured_data, transcripts, caller, phase, rulesResults, extractedData,
      remainingSchema, llmResults, llmCalls, llmThrew, llmOutcome, response, formData,
      validationResult, voiceOut, mergeOut, coerceIn, edits, selectedCompanyId,
      mockDatabase, command, isSaving, saveRequest, pdfRequest, loadRequest, staleSave,
      isLoadingSavedData, isLoadingMemory, isExtracting, selections>>

\* request id: Step 1 and the merge of the rule results, or the catch block
ServeRules(id) ==
    /\ runs[id].phase = "START"
    /\ \E rr \in {extractWithRules(runs[id].structured_data, runs[id].transcripts, rev)} :
       runs' = [runs EXCEPT ![id] =
                   IF rr.threw
                   THEN [@ EXCEPT !.response = [status |-> 500, body |-> errorResponse(rev)],
                                  !.phase = "RESPONDED"]
                   ELSE [@ EXCEPT !.rulesResults = rr.results,
                                  !.extractedData = MergeRules(rev, InitExtracted(rev), rr.results),
                                  !.phase = "RULES_DONE"]]
    /\ UNCHANGED servingVars

\* request id: Step 2
ServeGap(id) ==
    /\ runs[id].phase = "RULES_DONE"
    /\ runs' = [runs EXCEPT ![id] =
                   [@ EXCEPT !.remainingSchema = Remaining(rev, extractedDataOf(runs, id)),
                             !.phase = "GAP_COMPUTED"]]
    /\ UNCHANGED servingVars

\* request id: Step 3 up to the suspension: no call, {} without a credential, an
\* exception of the client construction, or the awaited call is issued
ServeLLMCall(id) ==
    /\ runs[id].phase = "GAP_COMPUTED"
    /\ \E constructs \in BOOLEAN :
       runs' = [runs EXCEPT ![id] =
                   IF NothingToRequest(runs[id].remainingSchema)
                   THEN [@ EXCEPT !.phase = "LLM_SKIPPED"]
                   ELSE IF NoCredential(apiKey)
                   THEN [@ EXCEPT !.phase = "LLM_DONE"]
                   ELSE IF ~constructs
                   THEN [@ EXCEPT !.llmThrew = TRUE,
                                  !.response = [status |-> 500, body |-> errorResponse(rev)],
                                  !.phase = "RESPONDED"]
                   ELSE [@ EXCEPT !.phase = "LLM_WAIT"]]
    /\ UNCHANGED servingVars

\* request id: its model call settles and the handler resumes
ServeLLMReturn(id) ==
    /\ runs[id].phase = "LLM_WAIT"
    /\ \E answer \in ConcurrentAnswers :
       runs' = [runs EXCEPT ![id] = [@ EXCEPT !.llmResults = answer, !.phase = "LLM_DONE"]]
    /\ UNCHANGED servingVars

\* request id: Step 4
ServeMerge(id) ==
    /\ runs[id].phase \in {"LLM_DONE", "LLM_SKIPPED"}
    /\ runs' = [runs EXCEPT ![id] =
                   [@ EXCEPT !.extractedData = MergeLLM(rev, extractedDataOf(runs, id),
                                                        runs[id].remainingSchema,
                                                        runs[id].llmResults),
                             !.phase = "MERGED"]]
    /\ UNCHANGED servingVars

\* request id: Step 5 and the answer
ServeRespond(id) ==
    /\ runs[id].phase = "MERGED"
    /\ \E final \in {FinalCleanup(rev, extractedDataOf(runs, id))} :
       runs' = [runs EXCEPT ![id] =
                   [@ EXCEPT !.extractedData = final,
                             !.response = [status |-> 200, body |-> final],
                             !.phase = "RESPONDED"]]
    /\ UNCHANGED servingVars

NextConcurrent ==
    \E id \in RunIds :
       \/ ServeRules(id)
       \/ ServeGap(id)
       \/ ServeLLMCall(id)
       \/ ServeLLMReturn(id)
       \/ ServeMerge(id)
       \/ ServeRespond(id)

SpecConcurrent == InitConcurrent /\ [][NextConcurrent]_vars

\* the answer to a request served alone, its model stage having thrown or settled
\* with llm
AnswerAlone(r, run) ==
    LET rr == extractWithRules(run.structured_data, run.transcripts, r)
        afterRules == MergeRules(r, InitExtracted(r), rr.results)
        remaining == Remaining(r, afterRules)
    IN IF rr.threw \/ run.llmThrew
       THEN [status |-> 500, body |-> errorResponse(r)]
       ELSE [status |-> 200,
             body |-> FinalCleanup(r, MergeLLM(r, afterRules, remaining, run.llmResults))]

\* C20: extraction requests are independent: whatever the interleaving of two
\* requests, the suspension at the model call included, the field map each request
\* is answered with is the one it gets when served alone, and no step changes the
\* schema registry.
C20_RequestsIndependent ==
    /\ [][rev' = rev]_vars
    /\ [](caller = "concurrent" =>
            \A id \in RunIds :
               runs[id].phase = "RESPONDED" => runs[id].response = AnswerAlone(rev, runs[id]))

\* request 1 has been answered with a candidate of the model merged, while request
\* 2, with another body, is suspended at its model call
C20_Witness ==
    /\ caller = "concurrent"
    /\ runs[1].phase = "RESPONDED"
    /\ runs[1].response.status = 200
    /\ runs[1].llmResults /= EmptyObj
    /\ runs[2].phase = "LLM_WAIT"
    /\ runs[2].structured_data /= runs[1].structured_data

----------------------------------------------------------------------------
(* Totality of the field validators *)

\* C21: every field validator of the schema is total: whatever kind of value an edit
\* puts into a field, the validators applied to the edited form data return true or
\* false and none of them throws.
C21_ValidatorsTotal ==
    (caller \in {"validateAcord125Data", "validateFormData"} /\ phase = "EDITED") =>
        ~validationResult.threw

----------------------------------------------------------------------------
(* The tax id found in the transcripts *)

\* the transcripts that hold a tax id
Matching(items) ==
    {i \in 1..Len(items) : items[i].k = "string" /\ feinRegex(items[i].s) /= <<>>}

\* the rule extractor has returned from a scan of the transcripts that reaches the
\* earliest transcript with a tax id: all transcripts before it are strings
ScannedToFirstMatch ==
    /\ caller = "rules"
    /\ phase \in {"RAN_ONCE", "RAN_TWICE"}
    /\ transcripts.isArray
    /\ Matching(transcripts.items) /= {}
    /\ \A i \in 1..Len(transcripts.items) :
          (\A j \in Matching(transcripts.items) : i < j) => transcripts.items[i].k = "string"

\* C22: tax-id extraction from transcripts is first-match-wins: the transcripts are
\* scanned in their order, the value taken is the match of the earliest transcript
\* that has one, and no later transcript is examined (a later transcript changes
\* neither the value nor, by being no string, the outcome).
C22_FirstMatchWins ==
    ScannedToFirstMatch =>
        LET first == CHOOSE i \in Matching(transcripts.items) :
                        \A j \in Matching(transcripts.items) : i <= j
        IN /\ ~rulesResults.threw
           /\ "fein" \in DOMAIN rulesResults.results
           /\ rulesResults.results["fein"] = Str(feinRegex(transcripts.items[first].s))

\* two transcripts hold different tax ids and the one of the first was taken
C22_Witness ==
    /\ ScannedToFirstMatch
    /\ Cardinality(Matching(transcripts.items)) = 2
    /\ feinRegex(transcripts.items[1].s) /= feinRegex(transcripts.items[2].s)
    /\ rulesResults.results["fein"] = Str(feinRegex(transcripts.items[1].s))

----------------------------------------------------------------------------
(* Values of an answered field map *)

\* v has the type the field declares
HasDeclaredType(r, key, v) ==
    CASE formSchema(r)[key].type = "number" -> v.k = "number"
      [] formSchema(r)[key].type = "checkbox" -> v.k = "boolean"
      [] OTHER -> v.k = "string"

\* C23: every non-null value of the field map an extraction run answers with has
\* the type its field declares and satisfies its field's validator, whatever the raw
\* source, the transcripts and the model's answer were.
C23_AnsweredValuesValid ==
    (caller = "handler" /\ phase \in {"RESPONDED", "VALIDATED"}) =>
        \A key \in DOMAIN response.body :
           response.body[key] /= Null =>
              /\ key \in SchemaKeys(rev)
              /\ HasDeclaredType(rev, key, response.body[key])
              /\ ~validationThrows(rev, key, response.body[key])
              /\ validation(rev, key, response.body[key])

\* an answer that holds a value of the rules and a number the model proposed, while
\* the raw source offered the rules a value as well
C23_Witness ==
    /\ Answered
    /\ DOMAIN rulesResults /= {}
    /\ \E key \in DOMAIN rulesResults : response.body[key] = rulesResults[key]
    /\ \E key \in (DOMAIN llmResults) \cap SchemaKeys(rev) :
          /\ response.body[key].k = "number"
          /\ llmResults[key].k = "string"

----------------------------------------------------------------------------
(* Candidates without a value *)

\* C24: a candidate of the model whose raw value is null or undefined never
\* populates a field: every remaining field with such a candidate is null in the
\* answered field map.
C24_NullCandidateIgnored ==
    Answered =>
        \A key \in (DOMAIN llmResults) \cap remainingSchema :
           llmResults[key] \in {Null, Undef} => response.body[key] = Null

----------------------------------------------------------------------------
(* The save-form and load-form handlers on one store *)

\* what the import { mockDatabase } from './save-form' of load-form.js can give:
\* save-form.js declares mockDatabase without exporting it, so the binding is
\* undefined, or the module does not link and the route fails as a whole
ImportOutcomes == {"undefined", "link_error"}

\* load-form handler: 400 without companyId; the lookup mockDatabase[clerkUserId]
\* on the imported binding raises a TypeError that the catch block answers with 500
loadForm(db, user, companyId, binding) ==
    IF binding = "link_error" THEN [status |-> 500, body |-> Null]
    ELSE IF companyId = "" THEN [status |-> 400, body |-> Null]
    ELSE IF binding = "undefined" THEN [status |-> 500, body |-> Null]
    ELSE IF <<user, companyId>> \in DOMAIN db
    THEN [status |-> 200, body |-> db[<<user, companyId>>]]
    ELSE [status |-> 200, body |-> Null]

\* a second form that passes the save-form validation
RenamedForm(r) == Put(LoadedForm(r), "legal_name", Str(<<"B", "o", "b", " ", "I", "n", "c">>))

\* the save-form requests the store is offered
StoreRequests(r) ==
    {[companyId |-> "c1", hasFormData |-> TRUE, formData |-> LoadedForm(r)],
     [companyId |-> "c1", hasFormData |-> TRUE, formData |-> RenamedForm(r)],
     [companyId |-> "c1", hasFormData |-> TRUE, formData |-> BlankForm(r)],
     [companyId |-> "", hasFormData |-> TRUE, formData |-> LoadedForm(r)]}

InitStore ==
    /\ rev \in Revs
    /\ apiKey = FALSE
    /\ structured_data = NoStructuredData
    /\ transcripts = NoTranscripts
    /\ caller = "store"
    /\ phase = "SERVING"
    /\ remainingSchema = {}
    /\ RunIdle
    /\ formData = EmptyObj
    /\ validationResult = NotValidated
    /\ CoerceIdle
    /\ edits = 0
    /\ SessionIdle

\* everything but the store and the two requests
storeFrame ==
    <<rev, apiKey, structured_data, transcripts, caller, phase, rulesResults, extractedData,
      remainingSchema, llmResults, llmCalls, llmThrew, llmOutcome, response, formData,
      validationResult, voiceOut, mergeOut, coerceIn, edits, selectedCompanyId, command,
      isSaving, pdfRequest, runs, staleSave, isLoadingSavedData, isLoadingMemory,
      isExtracting, selections>>

\* POST /api/save-form of a signed-in user
StoreSave ==
    /\ caller = "store"
    /\ \E user \in {SessionUser, OtherUser} :
       \E req \in StoreRequests(rev) :
       \E out \in {saveForm(mockDatabase, user, req, rev)} :
          /\ mockDatabase' = out.db
          /\ saveRequest' = [user |-> user, companyId |-> req.companyId,
                             formData |-> req.formData, isAutoSave |-> FALSE,
                             finalize |-> FALSE, status |-> out.status, stage |-> "answered"]
    /\ UNCHANGED <<storeFrame, loadRequest>>

\* GET /api/load-form of a signed-in user
StoreLoad ==
    /\ caller = "store"
    /\ \E user \in {SessionUser, OtherUser} :
       \E companyId \in {"c1", ""} :
       \E binding \in ImportOutcomes :
       \E out \in {loadForm(mockDatabase, user, companyId, binding)} :
          loadRequest' = [user |-> user, companyId |-> companyId, status |-> out.status,
                          body |-> out.body, stage |-> "answered"]
    /\ UNCHANGED <<storeFrame, mockDatabase, saveRequest>>

NextStore == StoreSave \/ StoreLoad

SpecStore == InitStore /\ [][NextStore]_vars

\* C25: save/load round trip: a load for a user and company answers with exactly the
\* form data of the last save for them that was answered with success, and with null
\* when there was none.
C25_SaveLoadRoundTrip ==
    [][(caller = "store" /\ loadRequest' /= loadRequest /\ loadRequest'.companyId /= "") =>
          /\ loadRequest'.status = 200
          /\ loadRequest'.body =
                IF <<loadRequest'.user, loadRequest'.companyId>> \in DOMAIN mockDatabase
                THEN mockDatabase[<<loadRequest'.user, loadRequest'.companyId>>]
                ELSE Null]_vars

----------------------------------------------------------------------------
(* Company selection: handleCompanySelect and what runs beside it *)

\* the companies of the Select, besides the cleared selection ""
Companies == {"c1", "c2"}

\* a request that was sent and whose caller has not resumed yet
InFlight(request) == request.stage \in {"sent", "answered"}

showLoadingIndicator == isLoadingSavedData \/ isLoadingMemory \/ isExtracting

showForm == selectedCompanyId /= "" /\ ~showLoadingIndicator

\* what loadFormData(companyId) gives the client: saved form data, null, an empty
\* object, or a rejection
LoadAnswers(r) ==
    {[status |-> 200, body |-> LoadedForm(r)],
     [status |-> 200, body |-> Null],
     [status |-> 200, body |-> EmptyObj],
     [status |-> 500, body |-> Null]}

\* what getCompanyMemory(companyId) gives the client
MemoryAnswers == {"memory", "null", "failed"}

\* what extractData(structured, unstructured) gives the client
ExtractAnswers(r) ==
    {[status |-> 200, body |-> RenamedForm(r)],
     [status |-> 500, body |-> EmptyObj]}

\* savedData && typeof savedData === 'object' && Object.keys(savedData).length > 0
HasSavedData(savedData) == savedData /= Null /\ savedData /= EmptyObj

\* faulty variant of FinalData: the loaded data is shown without the defaults
FinalDataRaw(loadedData) == loadedData

\* finalDataWithDefaults of the finally block of handleCompanySelect
FinalData(loadedData) == applyDefaultsToFormData(loadedData)

\* the variables no step of the client touches
selectFrame ==
    <<rev, apiKey, structured_data, transcripts, caller, rulesResults, extractedData,
      remainingSchema, llmResults, llmCalls, llmThrew, llmOutcome, voiceOut, mergeOut,
      coerceIn, runs>>

\* most company selections of one session
MaxSelections == 2

InitSelect ==
    /\ rev = "agency"
    /\ apiKey = FALSE
    /\ structured_data = NoStructuredData
    /\ transcripts = NoTranscripts
    /\ caller = "select"
    /\ phase = "IDLE"
    /\ remainingSchema = {}
    /\ RunIdle
    /\ formData = EmptyObj
    /\ validationResult = NotValidated
    /\ CoerceIdle
    /\ edits = 0
    /\ SessionIdle

\* the finally block of handleCompanySelect: the form of the selected company
FinishSelection(loadedData) ==
    /\ phase' = "IDLE"
    /\ isLoadingSavedData' = FALSE
    /\ isLoadingMemory' = FALSE
    /\ isExtracting' = FALSE
    /\ \E final \in {FinalData(loadedData)} :
          /\ formData' = final
          /\ validationResult' = validateForm(rev, final)

\* handleCompanySelect up to its first await; the Select is disabled while loading
SelectCompany ==
    /\ caller = "select"
    /\ selections < MaxSelections
    /\ selections' = selections + 1
    /\ ~showLoadingIndicator
    /\ ~InFlight(staleSave)
    /\ \E companyId \in Companies \cup {""} :
          /\ selectedCompanyId' = companyId
          /\ IF companyId = ""
             THEN /\ formData' = applyDefaultsToFormData(EmptyObj)
                  /\ validationResult' = validateForm(rev, EmptyObj)
                  /\ loadRequest' = NoLoad
                  /\ UNCHANGED <<phase, isLoadingSavedData>>
             ELSE /\ formData' = EmptyObj
                  /\ validationResult' = NotValidated
                  /\ isLoadingSavedData' = TRUE
                  /\ phase' = "LOADING_SAVED"
                  /\ loadRequest' = [user |-> SessionUser, companyId |-> companyId,
                                     status |-> 0, body |-> Null, stage |-> "sent"]
    /\ isSaving' = FALSE
    /\ staleSave' = IF InFlight(saveRequest) THEN saveRequest ELSE staleSave
    /\ saveRequest' = NoSave
    /\ response' = NoResponse
    /\ UNCHANGED <<selectFrame, edits, mockDatabase, command, pdfRequest, isLoadingMemory,
                   isExtracting>>

\* await loadFormData(companyId) resumes
LoadReturns ==
    /\ phase = "LOADING_SAVED"
    /\ \E answer \in LoadAnswers(rev) :
          /\ loadRequest' = [loadRequest EXCEPT !.status = answer.status,
                                                !.body = answer.body, !.stage = "done"]
          /\ IF answer.status /= 200 THEN FinishSelection(EmptyObj)
             ELSE IF HasSavedData(answer.body) THEN FinishSelection(answer.body)
             ELSE /\ isLoadingMemory' = TRUE
                  /\ isExtracting' = TRUE
                  /\ phase' = "LOADING_MEMORY"
                  /\ UNCHANGED <<isLoadingSavedData, formData, validationResult>>
    /\ UNCHANGED <<selectFrame, response, edits, selectedCompanyId, mockDatabase, command,
                   isSaving, saveRequest, pdfRequest, staleSave,
                   selections>>

\* await getCompanyMemory(companyId) resumes
MemoryReturns ==
    /\ phase = "LOADING_MEMORY"
    /\ \E answer \in MemoryAnswers :
          IF answer = "memory"
          THEN /\ isLoadingMemory' = FALSE
               /\ phase' = "EXTRACTING"
               /\ UNCHANGED <<isLoadingSavedData, isExtracting, formData, validationResult>>
          ELSE FinishSelection(EmptyObj)
    /\ UNCHANGED <<selectFrame, response, edits, selectedCompanyId, mockDatabase, command,
                   isSaving, saveRequest, pdfRequest, loadRequest, staleSave,
                   selections>>

\* await extractData(structured, unstructured) resumes
ExtractReturns ==
    /\ phase = "EXTRACTING"
    /\ \E answer \in ExtractAnswers(rev) :
          /\ response' = answer
          /\ FinishSelection(IF answer.status = 200 THEN answer.body ELSE EmptyObj)
    /\ UNCHANGED <<selectFrame, edits, selectedCompanyId, mockDatabase, command,
                   isSaving, saveRequest, pdfRequest, loadRequest, staleSave,
                   selections>>

\* most input changes and voice commands between the selections of one session
MaxSelectChanges == 1

\* an input of the shown form changes
ShownInputChange == showForm /\ edits < MaxSelectChanges /\ SessionInputChange

\* a recording made in the shown form is answered by process-voice
RecordVoice == showForm /\ edits < MaxSelectChanges /\ ProcessVoice

\* the auto-save timer of 30 s, set after the selection, expires; a save that the
\* selection left behind has by then been ended by the 20 s timeout of the request
SelectAutoSaveFires == ~InFlight(staleSave) /\ AutoSaveFires

\* a click on the Finalize button of the shown form
ShownFinalize == showForm /\ HandleFinalizeAndGenerate

\* the save-form handler answers the request that the selection left behind
StaleSaveHandler ==
    /\ staleSave.stage = "sent"
    /\ \E req \in {[companyId |-> staleSave.companyId, hasFormData |-> TRUE,
                    formData |-> staleSave.formData]} :
       \E out \in {saveForm(mockDatabase, SessionUser, req, rev)} :
          /\ mockDatabase' = out.db
          /\ staleSave' = [staleSave EXCEPT !.status = out.status, !.stage = "answered"]
    /\ UNCHANGED <<selectFrame, phase, response, formData, validationResult, edits,
                   selectedCompanyId, command, isSaving, saveRequest, pdfRequest,
                   loadRequest, isLoadingSavedData, isLoadingMemory, isExtracting,
                   selections>>

\* the handleSaveForm that the selection left behind resumes: its finally block
\* resets isSaving, and its handleFinalizeAndGenerate goes on to the PDF request
StaleSaveReturns ==
    /\ staleSave.stage = "answered"
    /\ staleSave' = [staleSave EXCEPT !.stage = "done"]
    /\ isSaving' = FALSE
    /\ IF staleSave.finalize
       THEN pdfRequest' = PdfBody(staleSave)
       ELSE UNCHANGED pdfRequest
    /\ UNCHANGED <<selectFrame, phase, response, formData, validationResult, edits,
                   selectedCompanyId, mockDatabase, command, saveRequest,
                   loadRequest, isLoadingSavedData, isLoadingMemory, isExtracting,
                   selections>>

\* a selection and the edits and voice commands beside it
NextSelect ==
    \/ SelectCompany
    \/ LoadReturns
    \/ MemoryReturns
    \/ ExtractReturns
    \/ ShownInputChange
    \/ RecordVoice
    \/ HandleVoiceCommand

SpecSelect == InitSelect /\ [][NextSelect]_vars

\* the same with the saves of the session
NextSwitch ==
    \/ NextSelect
    \/ SelectAutoSaveFires
    \/ ShownFinalize
    \/ SaveFormHandler
    \/ SaveReturns
    \/ StaleSaveHandler
    \/ StaleSaveReturns

SpecSwitch == InitSelect /\ [][NextSwitch]_vars

----------------------------------------------------------------------------
(* Properties of a company selection *)

\* this step is handleSaveForm posting a save-form request
SaveStarts == saveRequest'.stage = "sent" /\ saveRequest.stage /= "sent"

\* C26: at most one save request is outstanding: handleSaveForm never starts a
\* saveFormData request while an earlier one, of this or of the previous selection,
\* has not yet completed.
C26_OneSaveOutstanding ==
    [][SaveStarts => ~InFlight(saveRequest) /\ ~InFlight(staleSave)]_vars

\* C27: a voice command changes the form data only while the company that was
\* selected when it was recorded is still the selected one.
C27_VoiceKeepsCompany ==
    [][VoiceChangesForm => command.company = selectedCompanyId]_vars

\* the positions of handleCompanySelect, in the order the code passes them
SelectionSteps ==
    {<<"LOADING_SAVED", "IDLE">>, <<"LOADING_SAVED", "LOADING_MEMORY">>,
     <<"LOADING_MEMORY", "EXTRACTING">>, <<"LOADING_MEMORY", "IDLE">>,
     <<"EXTRACTING", "IDLE">>}

\* an awaited remote call of handleCompanySelect returns or fails
AdvanceSelection ==
    /\ caller = "select"
    /\ \E step \in SelectionSteps : phase = step[1] /\ phase' = step[2]

\* every remote call of a selection eventually returns or fails
SpecSelectLive == InitSelect /\ [][NextSelect]_vars /\ WF_phase(AdvanceSelection)

\* the load of the selection answered with non-empty saved data
SavedDataLoaded == loadRequest.status = 200 /\ HasSavedData(loadRequest.body)

\* this step is the end of handleCompanySelect after a load
SelectionEnds == phase /= "IDLE" /\ phase' = "IDLE"

\* C28: every company selection terminates in a usable form: the three loading
\* flags end false and the form data ends as the defaults-applied map of the
\* saved data if the load gave non-empty saved data (and then no extraction call
\* is made), else of the extraction result if there is one, else of the empty map.
C28_SelectionTerminates ==
    /\ [][SelectionEnds =>
            /\ ~isLoadingSavedData' /\ ~isLoadingMemory' /\ ~isExtracting'
            /\ formData' = applyDefaultsToFormData(
                  IF loadRequest'.status = 200 /\ HasSavedData(loadRequest'.body)
                  THEN loadRequest'.body
                  ELSE IF response'.status = 200 THEN response'.body
                  ELSE EmptyObj)]_vars
    /\ [](SavedDataLoaded => phase = "IDLE" /\ response = NoResponse)
    /\ [](phase /= "IDLE" => <>(phase = "IDLE"))

\* a selection ended with the form of the extraction result
C28_Witness ==
    /\ caller = "select"
    /\ phase = "IDLE"
    /\ selectedCompanyId \in Companies
    /\ ~SavedDataLoaded
    /\ response.status = 200
    /\ formData = applyDefaultsToFormData(response.body)
    /\ ~showLoadingIndicator

----------------------------------------------------------------------------
(* Properties of the field maps *)

\* this step is handleInputChange called by an input of the form
InputChanges == edits' = edits + 1 /\ command' = command

\* this step is handleVoiceCommand passing its command to handleInputChange
VoiceApplied == ~command.handled /\ command'.handled /\ AppliesCommand(rev, command)

\* the new form data is the previous one with at most the value at key changed
UpdatedAt(key) ==
    /\ DOMAIN formData' = (DOMAIN formData) \cup {key}
    /\ \A other \in (DOMAIN formData) \ {key} : formData'[other] = formData[other]

\* C29: a user edit or an applied voice command gives a field map that differs from
\* the previous one in at most the edited field's key; every other key keeps its
\* value, and the map a save request in flight was copied from is left as it was.
C29_CopyAndUpdate ==
    [][/\ InputChanges => \E pair \in SessionEdits : UpdatedAt(pair[1])
       /\ VoiceApplied => UpdatedAt(command.field)
       /\ (InputChanges \/ VoiceApplied) => saveRequest' = saveRequest /\ pdfRequest' = pdfRequest]_vars

\* a voice command was applied to a form that holds other values
C29_Witness ==
    /\ caller = "session"
    /\ command.handled
    /\ AppliesCommand(rev, command)
    /\ command.field \in DOMAIN formData
    /\ formData[command.field] = command.value
    /\ \E other \in (DOMAIN formData) \ {command.field} : ~isEmpty(formData[other])

----------------------------------------------------------------------------
(* applyDefaultsToFormData on its own *)

\* the values a field of the given form data is drawn from (Undef: the key is absent)
DefaultsChoices ==
    [agency_name : {Undef, Str(<<>>), Str(<<"A", "c", "m", "e">>)},
     policy_eff_date : {Undef, Null, Str(<<"2", "0", "2", "4", "-", "0", "1", "-", "0", "1">>)},
     policy_exp_date : {Undef, Str(<<"2", "0", "2", "5", "-", "0", "1", "-", "0", "1">>)},
     nature_of_business : {Undef, Str(<<>>), Str(<<"R", "e", "t", "a", "i", "l">>)},
     legal_name : {Undef, Str(<<"B", "o", "b">>)}]

\* the form data of a choice: the keys that were given a value
DefaultsInput(choice) ==
    [key \in {k \in DOMAIN choice : choice[k] /= Undef} |-> choice[key]]

InitDefaults ==
    /\ rev = "agency"
    /\ apiKey = FALSE
    /\ structured_data = NoStructuredData
    /\ transcripts = NoTranscripts
    /\ caller = "applyDefaultsToFormData"
    /\ phase = "GIVEN"
    /\ remainingSchema = {}
    /\ RunIdle
    /\ formData = EmptyObj
    /\ validationResult = NotValidated
    /\ CoerceIdle
    /\ edits = 0
    /\ selectedCompanyId = ""
    /\ mockDatabase = EmptyObj
    /\ command = NoCommand
    /\ isSaving = FALSE
    /\ saveRequest = NoSave
    /\ pdfRequest = EmptyObj
    /\ runs = NoRuns
    /\ \E choice \in DefaultsChoices :
          loadRequest = [NoLoad EXCEPT !.body = DefaultsInput(choice), !.stage = "done"]
    /\ staleSave = NoSave
    /\ isLoadingSavedData = FALSE
    /\ isLoadingMemory = FALSE
    /\ isExtracting = FALSE
    /\ selections = 0

\* applyDefaultsToFormData(loadedData)
ApplyDefaults ==
    /\ caller = "applyDefaultsToFormData"
    /\ phase = "GIVEN"
    /\ formData' = applyDefaultsToFormData(loadRequest.body)
    /\ phase' = "APPLIED"
    /\ UNCHANGED <<selectFrame, response, validationResult, edits, selectedCompanyId,
                   mockDatabase, command, isSaving, saveRequest, pdfRequest, selectionVars>>

\* applyDefaultsToFormData applied to its own result; pdfRequest keeps the first result
ApplyDefaultsAgain ==
    /\ caller = "applyDefaultsToFormData"
    /\ phase = "APPLIED"
    /\ pdfRequest' = formData
    /\ formData' = applyDefaultsToFormData(formData)
    /\ phase' = "APPLIED_TWICE"
    /\ UNCHANGED <<selectFrame, response, validationResult, edits, selectedCompanyId,
                   mockDatabase, command, isSaving, saveRequest, selectionVars>>

NextDefaults == ApplyDefaults \/ ApplyDefaultsAgain

SpecDefaults == InitDefaults /\ [][NextDefaults]_vars

\* C30: applyDefaultsToFormData applies a default only where the field of the given
\* form data is empty: every field that holds a non-empty value keeps it, the
\* given map is left as it was, and applying the function twice gives what
\* applying it once gives.
C30_DefaultsOnlyIfEmpty ==
    /\ (caller = "applyDefaultsToFormData" /\ phase /= "GIVEN") =>
          \A key \in DOMAIN loadRequest.body :
             ~isEmpty(loadRequest.body[key]) => formData[key] = loadRequest.body[key]
    /\ (caller = "applyDefaultsToFormData" /\ phase = "APPLIED_TWICE") => formData = pdfRequest

\* what does hold: the fields outside the agency info keep a non-empty value, and
\* the second application changes nothing
C30_OtherFieldsKept ==
    /\ (caller = "applyDefaultsToFormData" /\ phase /= "GIVEN") =>
          \A key \in (DOMAIN loadRequest.body) \ (DOMAIN AGENCY_DEFAULTS) :
             ~isEmpty(loadRequest.body[key]) => formData[key] = loadRequest.body[key]
    /\ (caller = "applyDefaultsToFormData" /\ phase = "APPLIED_TWICE") => formData = pdfRequest
============================================================================
